---- MODULE Spec2Model ----
(***************************************************************************)
(* GraphMail: the retry engine (app/service/retry_service.py), the bulk    *)
(* persistence repository (app/repository/email_repository.py), the       *)
(* email collection service                                                *)
(* (app/service/emails/email_collection_service.py), the cache service,    *)
(* the recursive email service and its streaming controller.               *)
(*                                                                         *)
(* Each component has a specification of its own (SpecRetry, SpecRepo,     *)
(* SpecCollect, SpecCache, SpecRecursive, SpecTwice, SpecStream); the      *)
(* variables of the other components stay idle.                            *)
(***************************************************************************)
EXTENDS Integers, Sequences, FiniteSets, TLC

VARIABLES
    \* ---- RetryService.retry_operation -------------------------------
    profile,      \* the RetryProfile the service was constructed with
    context,      \* the RetryContext handed to retry_operation
    retry,        \* the position and counters of one retry_operation call
    clock,        \* time.time() - start_time, in tenths of a second
    \* ---- EmailRepository.bulk_save_emails ---------------------------
    emails,       \* the input list of DBEmail records
    table,        \* graph_message_id values committed in tbl_email_v2
    persist,      \* the position and buckets of one bulk_save_emails call
    sessionMaker, \* ASYNC_SESSION_LOCAL is set (init_db has run)
    \* ---- EmailCollectionService.get_all_emails_by_folder_id ---------
    config,       \* self.config of the collection service
    mailbox,      \* the number of messages in the remote folder
    collect,      \* the position and locals of one invocation
    tasks,        \* the page fetches, by page index: semaphore and retry state
    xlate,        \* the retry state of the translation batch in hand
    yielded,      \* what the generator has yielded, in order
    metrics,      \* the BatchMetrics of the invocation
    faults,       \* failures the remote side may still produce
    \* ---- EmailCacheService ------------------------------------------
    cache,        \* self.cache: folder id -> CacheEntry
    cache_ttl,    \* self.cache_ttl, in seconds
    wall,         \* time.time(), in seconds, and the clock steps taken
    call,         \* the last call of the cache service and its result
    \* ---- RecursiveEmailService.get_all_emails_recursively -----------
    remote,       \* the messages of each folder of the remote mailbox
    walk,         \* the position and locals of one recursive invocation
    events,       \* the events the invocation has yielded, in order
    recipientRows, \* the recipient rows committed
    budget,       \* failures the remote side and the database may still produce
    \* ---- recursive_email_controller: event_generator ----------------
    stream,       \* the event stream of one request to /folder/{id}/all_emails
    \* ---- two invocations of the orchestrator on one folder ----------
    overlap       \* the remote folder and the locals of the two invocations

retryVars == <<profile, context, retry, clock>>
repoVars  == <<emails, table, persist, sessionMaker>>
collectVars == <<config, mailbox, collect, tasks, xlate, yielded, metrics, faults>>
cacheVars == <<cache, cache_ttl, wall, call>>
recVars   == <<remote, walk, events, recipientRows, budget>>
streamVars == <<stream>>
overlapVars == <<overlap>>
vars      == <<profile, context, retry, clock, emails, table, persist, sessionMaker,
               config, mailbox, collect, tasks, xlate, yielded, metrics, faults,
               cache, cache_ttl, wall, call,
               remote, walk, events, recipientRows, budget, stream, overlap>>

Max(a, b) == IF a >= b THEN a ELSE b
Min(a, b) == IF a <= b THEN a ELSE b

RECURSIVE Pow2(_)
Pow2(n) == IF n = 0 THEN 1 ELSE 2 * Pow2(n - 1)

(***************************************************************************)
(* Retry profiles: max_retries, base_delay and max_timeout in seconds.     *)
(* RetryProfile.CRITICAL has no entry in PROFILES.                         *)
(***************************************************************************)
PROFILES ==
    [ FAST     |-> [max_retries |-> 2, base_delay |-> 1, max_timeout |-> 5],
      STANDARD |-> [max_retries |-> 3, base_delay |-> 2, max_timeout |-> 30],
      BATCH    |-> [max_retries |-> 5, base_delay |-> 3, max_timeout |-> 300] ]

ProfileNames == {"FAST", "STANDARD", "BATCH"}

\* Clock units in one second: the resolution of the model's clock.
TicksPerSecond == 10

Second == TicksPerSecond

\* Exception types an operation may raise. "Exception" is any type that is
\* on no abort list; "ValueError" is a type a caller may add to the list;
\* "GraphResponseException" is what GraphUtils.get_collection_value raises
\* inside a folder operation for a response of unexpected shape.
OperationExceptions ==
    {"Exception", "ValueError", "APIError", "IntegrityError", "GraphResponseException"}

\* abort_exceptions = [APIError, IntegrityError] + context.abort_on_exceptions
AbortExceptions(ctx) == {"APIError", "IntegrityError"} \cup ctx.abort_on_exceptions

IsAbort(e, ctx) == e \in AbortExceptions(ctx)

\* The RetryContext values: which optional members are supplied.
RetryContexts ==
    [ custom_exception    : BOOLEAN,
      metrics_recorder    : BOOLEAN,
      error_recorder      : BOOLEAN,
      abort_on_exceptions : SUBSET {"ValueError"} ]

\* How long one invocation of the operation may take, in clock units.
OpDurations == {0, 2 * Second, 31 * Second, 300 * Second}

\* The clock is only ever compared with max_timeout: it saturates one unit
\* above the largest max_timeout.
ClockCap == PROFILES["BATCH"].max_timeout * Second + 1

Advance(t, d) == Min(t + d, ClockCap)

\* _calculate_delay: base_delay * 2^attempt, jittered by at most 10 percent
\* either way, never negative. The set of delays the jitter allows (the two
\* extremes and the middle).
CalculateDelay(p, attempt) ==
    LET delay  == PROFILES[p].base_delay * Second * Pow2(attempt)
        jitter == delay \div 10
    IN  { Max(0, delay - jitter), Max(0, delay), Max(0, delay + jitter) }

\* time.time() - start_time > self.max_timeout
TimedOut(p, t) == t > PROFILES[p].max_timeout * Second

RetryStart ==
    [ pc          |-> "attempt",   \* attempt | running | sleeping | returned | raised
      attempt     |-> 0,
      opCalls     |-> 0,           \* invocations of context.operation
      metricsCalls|-> 0,           \* invocations of context.metrics_recorder
      errorCalls  |-> 0,           \* invocations of context.error_recorder
      sleeps      |-> 0,           \* asyncio.sleep calls
      timeouts    |-> 0,           \* attempts that raised the TimeoutError
      sleptAfterTimeout |-> FALSE, \* a backoff sleep followed a timeout
      first       |-> "none",      \* outcome of the first invocation
      cause       |-> "none",      \* the exception last caught
      raised      |-> "none" ]     \* none | custom | raw

Recorded(present) == IF present THEN 1 ELSE 0

\* The retry branch: metrics callback, then asyncio.sleep(delay).
SleepBranch(r, e, ctx) ==
    [ r EXCEPT !.pc = "sleeping",
               !.cause = e,
               !.metricsCalls = @ + Recorded(ctx.metrics_recorder),
               !.sleeps = @ + 1,
               !.sleptAfterTimeout = @ \/ (e = "TimeoutError") ]

\* Mutant: an abort-listed exception is retried like any other.
AbortBranch_Retried(r, e, ctx) == SleepBranch(r, e, ctx)

\* The abort branch of the except block: error callback, then raise.
AbortBranch(r, e, ctx) ==
    [ r EXCEPT !.pc = "raised",
               !.cause = e,
               !.errorCalls = @ + Recorded(ctx.error_recorder),
               !.raised = IF ctx.custom_exception THEN "custom" ELSE "raw" ]

\* The final-attempt branch: metrics callback, error callback, raise.
FinalBranch(r, e, ctx) ==
    [ r EXCEPT !.pc = "raised",
               !.cause = e,
               !.metricsCalls = @ + Recorded(ctx.metrics_recorder),
               !.errorCalls = @ + Recorded(ctx.error_recorder),
               !.raised = IF ctx.custom_exception THEN "custom" ELSE "raw" ]

\* Mutant: the last attempt is taken to be attempt max_retries, one too late.
HandleException_OneMore(r, e, ctx, p) ==
    IF IsAbort(e, ctx) THEN AbortBranch(r, e, ctx)
    ELSE IF r.attempt = PROFILES[p].max_retries THEN FinalBranch(r, e, ctx)
    ELSE SleepBranch(r, e, ctx)

\* except Exception as e: the whole handler, for exception e caught in the
\* attempt r.attempt.
HandleException(r, e, ctx, p) ==
    IF IsAbort(e, ctx) THEN AbortBranch(r, e, ctx)
    ELSE IF r.attempt = PROFILES[p].max_retries - 1 THEN FinalBranch(r, e, ctx)
    ELSE SleepBranch(r, e, ctx)

\* The head of the try block: the timeout check, raised inside the try, or
\* the invocation of the operation.
BeginAttempt(r, ctx, p, timedOut) ==
    IF timedOut
    THEN HandleException([r EXCEPT !.timeouts = @ + 1], "TimeoutError", ctx, p)
    ELSE [ r EXCEPT !.pc = "running", !.opCalls = @ + 1 ]

NoteFirst(r, outcome) ==
    IF r.first = "none" THEN [r EXCEPT !.first = outcome] ELSE r

\* result = await context.operation(); return result
OperationReturns(r) == [ NoteFirst(r, "ok") EXCEPT !.pc = "returned" ]

\* await context.operation() raises e
OperationRaises(r, e, ctx, p) == HandleException(NoteFirst(r, e), e, ctx, p)

\* asyncio.sleep returns: the for loop takes its next attempt.
NextAttempt(r) == [ r EXCEPT !.pc = "attempt", !.attempt = @ + 1 ]

----------------------------------------------------------------------------
(* retry_operation as a state machine over one call *)

IdleRetry ==
    /\ profile = "STANDARD"
    /\ context = [custom_exception |-> FALSE, metrics_recorder |-> FALSE,
                  error_recorder |-> FALSE, abort_on_exceptions |-> {}]
    /\ retry = RetryStart
    /\ clock = 0

\* self.config as __init__ sets it.
DefaultPageSize == 50
DefaultTranslationBatchSize == 1000
DefaultEmailChunkSize == 100
MaxConcurrentRequests == 5

DefaultConfig ==
    [ page_size              |-> DefaultPageSize,
      translation_batch_size |-> DefaultTranslationBatchSize,
      email_chunk_size       |-> DefaultEmailChunkSize,
      max_concurrent_requests|-> MaxConcurrentRequests ]

IdleCollect ==
    /\ config = DefaultConfig
    /\ mailbox = 0
    /\ collect = [pc |-> "idle"]
    /\ tasks = <<>>
    /\ xlate = RetryStart
    /\ yielded = <<>>
    /\ metrics = [current_phase |-> "initializing"]
    /\ faults = 0

IdleOverlap == overlap = [pc |-> "idle"]

IdleStream ==
    /\ stream = [pc |-> "idle"]

IdleRecursive ==
    /\ remote = <<>>
    /\ walk = [pc |-> "idle"]
    /\ events = <<>>
    /\ recipientRows = <<>>
    /\ budget = 0

\* cache_ttl: int = 300
DefaultCacheTtl == 300

IdleCache ==
    /\ cache = <<>>
    /\ cache_ttl = DefaultCacheTtl
    /\ wall = [time |-> 0, steps |-> 0]
    /\ call = [op |-> "none"]

IdleRepo ==
    /\ emails = <<>>
    /\ table = {}
    /\ persist = [pc |-> "idle"]
    /\ sessionMaker = FALSE

InitRetry ==
    /\ profile \in ProfileNames
    /\ context \in RetryContexts
    /\ retry = RetryStart
    /\ clock = 0
    /\ IdleRepo
    /\ IdleCollect
    /\ IdleCache
    /\ IdleRecursive
    /\ IdleStream
    /\ IdleOverlap

RetryAttempt ==
    /\ retry.pc = "attempt"
    /\ retry' = BeginAttempt(retry, context, profile, TimedOut(profile, clock))
    /\ UNCHANGED <<profile, context, clock, repoVars, collectVars, cacheVars, recVars, streamVars, overlapVars>>

RetryOpReturns ==
    /\ retry.pc = "running"
    /\ \E d \in OpDurations : clock' = Advance(clock, d)
    /\ retry' = OperationReturns(retry)
    /\ UNCHANGED <<profile, context, repoVars, collectVars, cacheVars, recVars, streamVars, overlapVars>>

RetryOpRaises ==
    /\ retry.pc = "running"
    /\ \E d \in OpDurations : clock' = Advance(clock, d)
    /\ \E e \in OperationExceptions :
          retry' = OperationRaises(retry, e, context, profile)
    /\ UNCHANGED <<profile, context, repoVars, collectVars, cacheVars, recVars, streamVars, overlapVars>>

RetryWake ==
    /\ retry.pc = "sleeping"
    /\ \E d \in CalculateDelay(profile, retry.attempt) : clock' = Advance(clock, d)
    /\ retry' = NextAttempt(retry)
    /\ UNCHANGED <<profile, context, repoVars, collectVars, cacheVars, recVars, streamVars, overlapVars>>

NextRetry == RetryAttempt \/ RetryOpReturns \/ RetryOpRaises \/ RetryWake

SpecRetry == InitRetry /\ [][NextRetry]_vars

RaisedAs(ctx) == IF ctx.custom_exception THEN "custom" ELSE "raw"

\* The call ended by raising and every invocation of the operation raised
\* an exception that is on no abort list.
ExhaustedOnNonAbort ==
    /\ retry.pc = "raised"
    /\ retry.cause \notin {"APIError", "IntegrityError"} \cup context.abort_on_exceptions

\* C1 as stated: an operation that raises a non-abort-listed exception on
\* every invocation is invoked exactly max_retries times, and the call then
\* raises the typed exception (the raw one when none was supplied).
C1_ExactlyMaxRetries ==
    ExhaustedOnNonAbort =>
        /\ retry.opCalls = PROFILES[profile].max_retries
        /\ retry.raised = RaisedAs(context)

\* C1 amended: such an operation is invoked at least once and at most
\* max_retries times, exactly max_retries times when no attempt began after
\* max_timeout had elapsed; every attempt either invoked the operation or hit
\* the timeout; the call then raises the typed exception (or the raw one) and
\* returns nothing.
C1_AtMostMaxRetries ==
    ExhaustedOnNonAbort =>
        /\ retry.opCalls >= 1
        /\ retry.opCalls <= PROFILES[profile].max_retries
        /\ retry.opCalls + retry.timeouts = PROFILES[profile].max_retries
        /\ (retry.timeouts = 0 => retry.opCalls = PROFILES[profile].max_retries)
        /\ retry.raised = RaisedAs(context)
        /\ retry.first # "ok"

C1_Witness ==
    /\ ExhaustedOnNonAbort
    /\ profile = "BATCH"
    /\ retry.timeouts = 0
    /\ retry.opCalls = 5
    /\ retry.raised = "custom"

\* C2: when the operation raises an abort-listed exception (a built-in one or
\* one the caller added), it was invoked exactly once, the error callback ran
\* once if present, the retry callback never ran, nothing slept, and the call
\* raised the typed exception, or the raw one when none was supplied.
C2_AbortInvokedOnce ==
    retry.first \in {"APIError", "IntegrityError"} \cup context.abort_on_exceptions =>
        /\ retry.pc = "raised"
        /\ retry.opCalls = 1
        /\ retry.errorCalls = Recorded(context.error_recorder)
        /\ retry.metricsCalls = 0
        /\ retry.sleeps = 0
        /\ retry.cause = retry.first
        /\ retry.raised = RaisedAs(context)

C2_Witness ==
    /\ retry.first = "ValueError"
    /\ "ValueError" \in context.abort_on_exceptions
    /\ context.error_recorder
    /\ context.metrics_recorder
    /\ retry.pc = "raised"
    /\ retry.errorCalls = 1

\* C3 as stated: once an attempt has found max_timeout exceeded the call has
\* ended with a final failure: no backoff sleep follows the timeout and the
\* retry callback is not run for it.
C3_TimeoutIsFinal ==
    retry.timeouts > 0 =>
        /\ retry.pc = "raised"
        /\ retry.timeouts = 1
        /\ ~retry.sleptAfterTimeout

\* C33: the retry callback has run once for each failed attempt that was
\* followed by a backoff sleep, and for no other; the error callback runs
\* only when the call ends by raising; a call that ended on the exception of
\* its final attempt ran the error callback once and the retry callback
\* max_retries - 1 times, having slept max_retries - 1 times.
C33_CallbacksPerAttempt ==
    /\ retry.metricsCalls = Recorded(context.metrics_recorder) * retry.sleeps
    /\ retry.pc # "raised" => retry.errorCalls = 0
    /\ ExhaustedOnNonAbort =>
          /\ retry.sleeps = PROFILES[profile].max_retries - 1
          /\ retry.errorCalls = Recorded(context.error_recorder)
          /\ retry.metricsCalls
                = Recorded(context.metrics_recorder) * (PROFILES[profile].max_retries - 1)

\* What the code does: the retry callback runs for every failed attempt
\* that is not aborted, the final one included.
CallbacksAsMade ==
    /\ retry.pc # "raised" => retry.errorCalls = 0
    /\ ExhaustedOnNonAbort =>
          /\ retry.sleeps = PROFILES[profile].max_retries - 1
          /\ retry.errorCalls = Recorded(context.error_recorder)
          /\ retry.metricsCalls
                = Recorded(context.metrics_recorder) * PROFILES[profile].max_retries

\* C34: an operation that fails on every attempt with an exception on no
\* abort list is attempted 1 + max_retries times, the initial attempt and
\* max_retries retries, with max_retries backoff sleeps between them: 3
\* attempts for FAST, 4 for STANDARD, 6 for BATCH.
C34_InitialAttemptPlusRetries ==
    ExhaustedOnNonAbort =>
        /\ retry.opCalls + retry.timeouts = 1 + PROFILES[profile].max_retries
        /\ retry.sleeps = PROFILES[profile].max_retries
        /\ retry.attempt = PROFILES[profile].max_retries

\* The RetryContext and profile of get_root_folders and get_child_folders:
\* custom_exception is FolderException, no callbacks, no abort list of
\* their own; RetryService(retry_profile=RetryProfile.STANDARD).
FolderContext ==
    [ custom_exception |-> TRUE, metrics_recorder |-> FALSE,
      error_recorder |-> FALSE, abort_on_exceptions |-> {} ]

\* What retry_operation raises to the folder service: the FolderException
\* built by custom_exception, or the caught exception itself.
RetryRaised(r) == IF r.raised = "custom" THEN "FolderException" ELSE r.cause

\* The except clauses of get_root_folders: a GraphResponseException is
\* re-raised, anything else becomes a FolderException.
GetRootFoldersExcept(e) ==
    IF e = "GraphResponseException" THEN "GraphResponseException" ELSE "FolderException"

\* The except clause of get_child_folders: everything becomes a
\* FolderException.
GetChildFoldersExcept(e) == "FolderException"

\* A folder listing ended by raising, the operation having raised the
\* bad-response-shape error on its last invocation.
FolderListingBadShape ==
    /\ profile = "STANDARD"
    /\ context = FolderContext
    /\ retry.pc = "raised"
    /\ retry.cause = "GraphResponseException"

\* C35: in get_root_folders and get_child_folders a remote response of
\* unexpected shape reaches the caller as the bad-response-shape error
\* (GraphResponseException), not as a FolderException, and so differs
\* from what a transient failure that exhausted its retries raises.
C35_BadShapeReachesCaller ==
    FolderListingBadShape =>
        /\ GetRootFoldersExcept(RetryRaised(retry)) = "GraphResponseException"
        /\ GetChildFoldersExcept(RetryRaised(retry)) = "GraphResponseException"

----------------------------------------------------------------------------
(* EmailRepository.bulk_save_emails and _execute_persist *)

\* The longest input list and the number of distinct stable message ids.
MaxRecords == 3
MaxMessageId == 2

MessageIds == 1..MaxMessageId

\* What is wrong with a record, apart from its key: nothing, a constraint
\* other than the unique key (an IntegrityError that is no duplicate entry),
\* or something that makes the insert raise an exception that is no
\* IntegrityError.
RecordFaults == {"none", "constraint", "error"}

DBEmails == [graph_message_id : MessageIds, fault : RecordFaults]

RECURSIVE SeqsUpTo(_, _)
SeqsUpTo(S, n) ==
    IF n = 0 THEN { <<>> }
    ELSE LET shorter == SeqsUpTo(S, n - 1)
         IN  shorter \cup { Append(q, x) : q \in { t \in shorter : Len(t) = n - 1 }, x \in S }

\* session.add(email); flush; commit: what the database answers for one
\* record, given the committed rows. graph_message_id is the only unique
\* column, so error 1062 (MYSQL_DUPLICATE_ENTRY_ERROR) is a duplicate of it.
InsertOutcome(email, rows) ==
    IF email.fault = "error" THEN "error"
    ELSE IF email.fault = "constraint" THEN "integrity"
    ELSE IF email.graph_message_id \in rows THEN "duplicate"
    ELSE "ok"

PersistStart(rows) ==
    [ pc         |-> "open",   \* open | loop | returned | raised
      before     |-> rows,     \* the rows committed when the call began
      i          |-> 1,        \* the next record of the for loop
      successful |-> <<>>,     \* successfully_persisted, as input positions
      duplicate  |-> <<>>,     \* duplicate_emails
      failed     |-> <<>>,     \* failed_emails
      log        |-> <<>>,     \* the database's answer to each insert made
      committed  |-> {} ]      \* input positions this call committed

\* Mutant: a record that breaks another constraint is dropped, not failed.
OnIntegrityOther_Dropped(ps) ==
    [ ps EXCEPT !.i = @ + 1, !.log = Append(@, "integrity") ]

\* except IntegrityError, not a duplicate entry: rollback, failed bucket.
OnIntegrityOther(ps) ==
    [ ps EXCEPT !.i = @ + 1, !.log = Append(@, "integrity"),
                !.failed = Append(@, ps.i) ]

\* except IntegrityError, duplicate entry: rollback, duplicate bucket.
\* Mutant: a duplicate entry is booked as a failure.
OnDuplicate_Failed(ps) ==
    [ ps EXCEPT !.i = @ + 1, !.log = Append(@, "duplicate"),
                !.failed = Append(@, ps.i) ]

OnDuplicate(ps) ==
    [ ps EXCEPT !.i = @ + 1, !.log = Append(@, "duplicate"),
                !.duplicate = Append(@, ps.i) ]

\* flush, commit and refresh went through.
OnCommitted(ps) ==
    [ ps EXCEPT !.i = @ + 1, !.log = Append(@, "ok"),
                !.successful = Append(@, ps.i),
                !.committed = @ \cup {ps.i} ]

\* Mutant: an unknown error is a failed record and the loop goes on.
OnUnknownError_Failed(ps) ==
    [ ps EXCEPT !.i = @ + 1, !.log = Append(@, "error"),
                !.failed = Append(@, ps.i) ]

\* except Exception: rollback and raise; bulk_save_emails wraps what it
\* catches in an EmailPersistenceException.
OnUnknownError(ps) ==
    [ ps EXCEPT !.pc = "raised", !.log = Append(@, "error") ]

\* Mutant: any failure escalates, whatever else was saved.
Escalates_AnyFailure(ps) == ps.failed # <<>>

\* if failed_emails and not (duplicate_emails or successful_emails)
Escalates(ps) ==
    /\ ps.failed # <<>>
    /\ ~(ps.duplicate # <<>> \/ ps.successful # <<>>)

InitRepo ==
    /\ emails \in SeqsUpTo(DBEmails, MaxRecords)
    /\ table \in SUBSET MessageIds
    /\ sessionMaker \in BOOLEAN
    /\ persist = PersistStart(table)
    /\ IdleRetry
    /\ IdleCollect
    /\ IdleCache
    /\ IdleRecursive
    /\ IdleStream
    /\ IdleOverlap

\* async with get_db() as session
OpenSession ==
    /\ persist.pc = "open"
    /\ persist' = [persist EXCEPT !.pc = IF sessionMaker THEN "loop" ELSE "raised"]
    /\ UNCHANGED <<emails, table, sessionMaker, retryVars, collectVars, cacheVars, recVars, streamVars, overlapVars>>

\* One turn of the for loop of _execute_persist.
PersistRecord ==
    /\ persist.pc = "loop"
    /\ persist.i <= Len(emails)
    /\ LET outcome == InsertOutcome(emails[persist.i], table)
       IN  /\ persist' = CASE outcome = "ok"        -> OnCommitted(persist)
                           [] outcome = "duplicate" -> OnDuplicate(persist)
                           [] outcome = "integrity" -> OnIntegrityOther(persist)
                           [] OTHER                 -> OnUnknownError(persist)
           /\ table' = IF outcome = "ok"
                       THEN table \cup {emails[persist.i].graph_message_id}
                       ELSE table
    /\ UNCHANGED <<emails, sessionMaker, retryVars, collectVars, cacheVars, recVars, streamVars, overlapVars>>

\* The loop is over: the buckets are returned to bulk_save_emails, which
\* raises or returns them.
BulkSaveFinish ==
    /\ persist.pc = "loop"
    /\ persist.i > Len(emails)
    /\ persist' = [persist EXCEPT !.pc = IF Escalates(persist) THEN "raised" ELSE "returned"]
    /\ UNCHANGED <<emails, table, sessionMaker, retryVars, collectVars, cacheVars, recVars, streamVars, overlapVars>>

NextRepo == OpenSession \/ PersistRecord \/ BulkSaveFinish

SpecRepo == InitRepo /\ [][NextRepo]_vars

Range(q) == { q[k] : k \in 1..Len(q) }

BulkSaveEnded == persist.pc \in {"returned", "raised"}

\* The scenario of C4: A's stable message id is already stored, B is
\* well-formed and new, C breaks a constraint that is not the unique key.
ListABC ==
    /\ Len(emails) = 3
    /\ sessionMaker
    /\ emails[1].fault = "none" /\ emails[1].graph_message_id \in persist.before
    /\ emails[2].fault = "none" /\ emails[2].graph_message_id \notin persist.before
    /\ emails[3].fault = "constraint"

OnlyFailures ==
    /\ persist.failed # <<>>
    /\ persist.successful = <<>>
    /\ persist.duplicate = <<>>

EveryRecordFaulty ==
    /\ emails # <<>>
    /\ \A k \in 1..Len(emails) : emails[k].fault # "none"

InInputOrder(q) == \A a, b \in 1..Len(q) : a < b => q[a] < q[b]

----------------------------------------------------------------------------
(* EmailCollectionService.get_all_emails_by_folder_id *)

\* The scaled-down configuration the model also runs, the largest folder it
\* is run on and the number of failures the remote side may produce in such
\* a run; the folder the default configuration is run on and the failures
\* of that run, enough for a call to exhaust its attempts.
SmallPageSize == 2
SmallBatchSize == 3
SmallChunkSize == 2
MaxMessages == 13
MaxFaults == 2
ScenarioMessages == 120
ScenarioFaults == 4

SmallConfig ==
    [ page_size              |-> SmallPageSize,
      translation_batch_size |-> SmallBatchSize,
      email_chunk_size       |-> SmallChunkSize,
      max_concurrent_requests|-> MaxConcurrentRequests ]

\* (count + size - 1) // size, as the code computes its page, batch and
\* chunk counts.
\* Mutant: the page count is rounded down.
CeilDivCode_Floor(count, size) == count \div size

CeilDivCode(count, size) == (count + size - 1) \div size

\* Mutant: skip is the page number, not page_num * page_size.
PageRequest_SkipPageNum(page_num, cfg) ==
    [ top |-> cfg.page_size, skip |-> page_num ]

\* The query parameters of one page request.
PageRequest(page_num, cfg) ==
    [ top |-> cfg.page_size, skip |-> page_num * cfg.page_size ]

\* The remote listing of a folder of n messages (ids 1..n in listing order),
\* answered for a request: at most top messages after the first skip.
PageResponse(req, n) ==
    [ k \in 1..Max(0, Min(req.top, n - req.skip)) |-> req.skip + k ]

\* odata_count of the first page's response.
TotalCount(n) == n

\* The stable id the translation endpoint gives a source id.
ImmutableId(id) == 0 - id

\* The contexts _fetch_single_page and _build_retry_context build, and the
\* profile of self.retry_service.
PageContext ==
    [ custom_exception |-> TRUE, metrics_recorder |-> TRUE,
      error_recorder |-> TRUE, abort_on_exceptions |-> {} ]

TranslateContext ==
    [ custom_exception |-> TRUE, metrics_recorder |-> TRUE,
      error_recorder |-> TRUE, abort_on_exceptions |-> {} ]

CollectProfile == "STANDARD"

\* What a remote call may raise: a failure the engine retries, or the
\* upstream APIError, which is abort-listed.
RemoteExceptions == {"Exception", "APIError"}

NewTask(st) == [ st |-> st, r |-> RetryStart, result |-> <<>> ]

\* A page task after a step of its retry_operation call: it leaves the
\* semaphore when the call returns or raises.
SettleTask(t, r2, page) ==
    [ st     |-> IF r2.pc = "returned" THEN "done"
                 ELSE IF r2.pc = "raised" THEN "failed" ELSE t.st,
      r      |-> r2,
      result |-> IF r2.pc = "returned" THEN page ELSE t.result ]

\* record_page_retry and record_page_error, as often as the step ran them.
PageCallbacks(m, r, r2) ==
    [ m EXCEPT !.total_retries = @ + (r2.metricsCalls - r.metricsCalls),
               !.total_errors  = @ + (r2.errorCalls - r.errorCalls) ]

\* record_translation_retry and record_translation_error.
TranslationCallbacks(m, r, r2) ==
    [ m EXCEPT !.translation_retries = @ + (r2.metricsCalls - r.metricsCalls),
               !.translation_errors  = @ + (r2.errorCalls - r.errorCalls) ]

\* metrics.get_progress_info()
ProgressInfo(m) ==
    [ kind             |-> "progress",
      phase            |-> m.current_phase,
      total_emails     |-> m.total_count,
      processed_emails |-> m.emails_processed,
      pages_fetched    |-> m.pages_fetched,
      ids_translated   |-> m.ids_translated ]

FinalList(es) == [ kind |-> "list", emails |-> es ]

\* The page tasks gather was given: pages 1..total_pages-1.
GatheredPages(ts) == DOMAIN ts \ {0}

\* The fetches inside `async with sem`, a retry backoff included.
Holders(ts) == { p \in GatheredPages(ts) : ts[p].st = "holding" }

\* Mutant: no semaphore.
CanAcquire_Unbounded(ts, cfg) == TRUE

\* sem = asyncio.Semaphore(max_concurrent_requests): a permit is free.
CanAcquire(ts, cfg) == Cardinality(Holders(ts)) < cfg.max_concurrent_requests

\* Mutant: gather returns as soon as one task has returned.
AllPagesFetched_Any(ts) == \E p \in GatheredPages(ts) : ts[p].st = "done"

\* Mutant: gather returns once every task has ended, raised or not.
AllPagesFetched_Settled(ts) ==
    \A p \in GatheredPages(ts) : ts[p].st \in {"done", "failed"}

\* pages = await asyncio.gather(*tasks): every task has returned.
AllPagesFetched(ts) == \A p \in GatheredPages(ts) : ts[p].st = "done"

\* [msg for page in pages if page for msg in page], pages in task order.
RECURSIVE Flatten(_, _, _)
Flatten(ts, p, last) ==
    IF p > last THEN <<>> ELSE ts[p].result \o Flatten(ts, p + 1, last)

\* len([page for page in pages if page])
NonEmptyPages(ts) == Cardinality({ p \in GatheredPages(ts) : ts[p].result # <<>> })

\* message_ids[i:i + batch_size], i counted from 0.
Slice(q, i, size) == SubSeq(q, i + 1, Min(i + size, Len(q)))

\* for item in results: id_mapping[item["source_id"]] = item["target_id"]
Translated(mapping, batch) ==
    [ id \in Range(batch) |-> ImmutableId(id) ] @@ mapping

\* [Email.from_graph_message(msg, id_mapping[msg.id]) for msg in chunk
\*  if msg.id in id_mapping]
ChunkEmails(chunk, mapping) ==
    LET kept == SelectSeq(chunk, LAMBDA msg : msg \in DOMAIN mapping)
    IN  [ k \in DOMAIN kept |-> [source_id |-> kept[k], message_id |-> mapping[kept[k]]] ]

MetricsStart ==
    [ current_phase       |-> "initializing",
      pages_fetched       |-> 0,
      ids_translated      |-> 0,
      emails_processed    |-> 0,
      total_count         |-> 0,
      total_retries       |-> 0,
      total_errors        |-> 0,
      translation_retries |-> 0,
      translation_errors  |-> 0,
      final_logs          |-> 0 ]    \* calls of log_final_metrics

CollectStartState ==
    [ pc              |-> "start",
      total_pages     |-> 0,
      messages        |-> <<>>,
      id_mapping      |-> <<>>,
      batch_i         |-> 0,       \* i of the loop of _translate_message_ids
      chunk_i         |-> 0,       \* i of the loop of _process_emails
      emails          |-> <<>>,
      translate_calls |-> 0,       \* calls of graph_translator.translate_ids
      skipped         |-> {},      \* the i of the batches given up
      error           |-> "none",  \* the exception that left the generator
      overtaken       |-> FALSE,   \* a page returned before a page of lower index
      reported        |-> <<>> ]   \* the page activity when gather raised

InitCollect ==
    /\ \/ config = SmallConfig /\ mailbox \in 0..MaxMessages /\ faults = MaxFaults
       \/ /\ config = SmallConfig
          /\ mailbox = 2 * SmallBatchSize + 1
          /\ faults = ScenarioFaults
       \/ /\ config = DefaultConfig
          /\ mailbox \in {0, ScenarioMessages}
          /\ faults = ScenarioFaults
    /\ collect = CollectStartState
    /\ tasks = <<>>
    /\ xlate = RetryStart
    /\ yielded = <<>>
    /\ metrics = MetricsStart
    /\ IdleRetry
    /\ IdleRepo
    /\ IdleCache
    /\ IdleRecursive
    /\ IdleStream
    /\ IdleOverlap

\* _fetch_messages up to the first page request: the phase is set and page 0
\* is fetched outside the semaphore.
CollectStart ==
    /\ collect.pc = "start"
    /\ collect' = [collect EXCEPT !.pc = "page0"]
    /\ metrics' = [metrics EXCEPT !.current_phase = "fetching"]
    /\ tasks' = (0 :> NewTask("holding"))
    /\ UNCHANGED <<config, mailbox, xlate, yielded, faults, retryVars, repoVars, cacheVars, recVars, streamVars, overlapVars>>

\* fetch_with_semaphore: async with sem
TaskAcquire(p) ==
    /\ tasks[p].st = "waiting"
    /\ CanAcquire(tasks, config)
    /\ tasks' = [tasks EXCEPT ![p].st = "holding"]
    /\ UNCHANGED <<config, mailbox, collect, xlate, yielded, metrics, faults,
                   retryVars, repoVars, cacheVars, recVars, streamVars, overlapVars>>

\* The head of an attempt of a page fetch: the request goes out, or the
\* attempt finds max_timeout exceeded (never the first attempt).
TaskAttempt(p) ==
    /\ tasks[p].st = "holding"
    /\ tasks[p].r.pc = "attempt"
    /\ \E timedOut \in BOOLEAN :
          /\ timedOut => tasks[p].r.attempt >= 1 /\ faults > 0
          /\ LET r2 == BeginAttempt(tasks[p].r, PageContext, CollectProfile, timedOut)
             IN  /\ tasks' = [tasks EXCEPT ![p] = SettleTask(@, r2, <<>>)]
                 /\ metrics' = PageCallbacks(metrics, tasks[p].r, r2)
          /\ faults' = IF timedOut THEN faults - 1 ELSE faults
    /\ UNCHANGED <<config, mailbox, collect, xlate, yielded, retryVars, repoVars, cacheVars, recVars, streamVars, overlapVars>>

\* fetch() returns the page's messages.
TaskOpReturns(p) ==
    /\ tasks[p].st = "holding"
    /\ tasks[p].r.pc = "running"
    /\ LET r2   == OperationReturns(tasks[p].r)
           page == PageResponse(PageRequest(p, config), mailbox)
       IN  tasks' = [tasks EXCEPT ![p] = SettleTask(@, r2, page)]
    /\ collect' = [collect EXCEPT !.overtaken =
                      @ \/ \E q \in GatheredPages(tasks) : q < p /\ tasks[q].st # "done"]
    /\ UNCHANGED <<config, mailbox, xlate, yielded, metrics, faults, retryVars, repoVars, cacheVars, recVars, streamVars, overlapVars>>

\* fetch() raises.
TaskOpRaises(p) ==
    /\ tasks[p].st = "holding"
    /\ tasks[p].r.pc = "running"
    /\ faults > 0
    /\ \E e \in RemoteExceptions :
          LET r2 == OperationRaises(tasks[p].r, e, PageContext, CollectProfile)
          IN  /\ tasks' = [tasks EXCEPT ![p] = SettleTask(@, r2, <<>>)]
              /\ metrics' = PageCallbacks(metrics, tasks[p].r, r2)
    /\ faults' = faults - 1
    /\ UNCHANGED <<config, mailbox, collect, xlate, yielded, retryVars, repoVars, cacheVars, recVars, streamVars, overlapVars>>

\* The backoff sleep of a page fetch is over.
TaskWake(p) ==
    /\ tasks[p].st = "holding"
    /\ tasks[p].r.pc = "sleeping"
    /\ tasks' = [tasks EXCEPT ![p].r = NextAttempt(@)]
    /\ UNCHANGED <<config, mailbox, collect, xlate, yielded, metrics, faults,
                   retryVars, repoVars, cacheVars, recVars, streamVars, overlapVars>>

\* Page 0 is in: total_count, pages_fetched, the fetching snapshot; then the
\* empty-folder return, or total_pages and the tasks of the other pages.
\* The list _fetch_messages yields goes to `messages`, never to the caller.
FirstPageReturned ==
    /\ collect.pc = "page0"
    /\ tasks[0].st = "done"
    /\ LET m2          == [metrics EXCEPT !.total_count = TotalCount(mailbox),
                                          !.pages_fetched = @ + 1]
           first       == tasks[0].result
           total_pages == CeilDivCode(TotalCount(mailbox), config.page_size)
       IN  /\ metrics' = m2
           /\ yielded' = Append(yielded, ProgressInfo(m2))
           /\ IF first = <<>>
              THEN /\ collect' = [collect EXCEPT !.pc = "done"]
                   /\ tasks' = tasks
              ELSE IF total_pages <= 1
              THEN /\ collect' = [collect EXCEPT !.pc = "translate",
                                                 !.total_pages = total_pages,
                                                 !.messages = first]
                   /\ tasks' = tasks
              ELSE /\ collect' = [collect EXCEPT !.pc = "gather",
                                                 !.total_pages = total_pages]
                   /\ tasks' = [ p \in 0..(total_pages - 1) |->
                                   IF p = 0 THEN tasks[0] ELSE NewTask("waiting") ]
    /\ UNCHANGED <<config, mailbox, xlate, faults, retryVars, repoVars, cacheVars, recVars, streamVars, overlapVars>>

\* What retry_operation raised for a page: custom_exception, or the
\* exception it caught when there is none.
TaskError(t) == IF t.r.raised = "custom" THEN "EmailException" ELSE t.r.cause

\* except Exception as e: raise EmailException(...) from e, in _process_emails
ProcessExcept(e) == "EmailException"

\* except Exception as e: raise EmailException(...) from e, in
\* get_all_emails_by_folder_id
OuterExcept(e) == "EmailException"

\* The fetch of page 0 raised: the EmailException leaves the generator.
FirstPageRaised ==
    /\ collect.pc = "page0"
    /\ tasks[0].st = "failed"
    /\ collect' = [collect EXCEPT !.pc = "raised",
                                  !.error = OuterExcept(TaskError(tasks[0]))]
    /\ UNCHANGED <<config, mailbox, tasks, xlate, yielded, metrics, faults,
                   retryVars, repoVars, cacheVars, recVars, streamVars, overlapVars>>

\* gather returns: pages_fetched, the flattened pages after the first page.
GatherReturns ==
    /\ collect.pc = "gather"
    /\ AllPagesFetched(tasks)
    /\ metrics' = [metrics EXCEPT !.pages_fetched = @ + NonEmptyPages(tasks)]
    /\ collect' = [collect EXCEPT
                      !.pc = "translate",
                      !.messages = tasks[0].result
                                   \o Flatten(tasks, 1, collect.total_pages - 1)]
    /\ UNCHANGED <<config, mailbox, tasks, xlate, yielded, faults, retryVars, repoVars, cacheVars, recVars, streamVars, overlapVars>>

\* The page requests made by the tasks of pages first..last.
RECURSIVE RequestsMade(_, _, _)
RequestsMade(ts, first, last) ==
    IF first > last THEN 0 ELSE ts[first].r.opCalls + RequestsMade(ts, first + 1, last)

\* What the page tasks have done so far: the requests sent, and the
\* retries and errors they have recorded in the metrics.
PageActivity(ts, m) ==
    [ requests |-> RequestsMade(ts, 0, Cardinality(DOMAIN ts) - 1),
      retries  |-> m.total_retries,
      errors   |-> m.total_errors ]

\* gather raises the exception of a task that failed; the other tasks are
\* not cancelled.
GatherRaises ==
    /\ collect.pc = "gather"
    /\ \E p \in GatheredPages(tasks) :
          /\ tasks[p].st = "failed"
          /\ collect' = [collect EXCEPT !.pc = "raised",
                                        !.error = OuterExcept(TaskError(tasks[p])),
                                        !.reported = <<PageActivity(tasks, metrics)>>]
    /\ UNCHANGED <<config, mailbox, tasks, xlate, yielded, metrics, faults,
                   retryVars, repoVars, cacheVars, recVars, streamVars, overlapVars>>

\* _translate_ids begins: the phase is set; the snapshot it yields is a
\* dict, which the caller's isinstance(result, dict) takes for the mapping
\* and does not pass on.
TranslateStart ==
    /\ collect.pc = "translate"
    /\ metrics' = [metrics EXCEPT !.current_phase = "translating"]
    /\ collect' = [collect EXCEPT !.pc = "translating", !.batch_i = 0,
                                  !.id_mapping = <<>>]
    /\ xlate' = RetryStart
    /\ UNCHANGED <<config, mailbox, tasks, yielded, faults, retryVars, repoVars, cacheVars, recVars, streamVars, overlapVars>>

BatchInHand ==
    /\ collect.pc = "translating"
    /\ collect.batch_i < Len(collect.messages)

\* The batch is over, translated or skipped: the loop moves on.
NextBatch(c) == [c EXCEPT !.batch_i = @ + config.translation_batch_size]

\* Mutant: a batch given up ends the loop.
SkipBatch_Abandon(c) ==
    [c EXCEPT !.batch_i = Len(c.messages), !.skipped = @ \cup {c.batch_i}]

\* except IdTranslationException: continue
SkipBatch(c) == [NextBatch(c) EXCEPT !.skipped = @ \cup {c.batch_i}]

\* The head of an attempt of a translation batch.
XlateAttempt ==
    /\ BatchInHand
    /\ xlate.pc = "attempt"
    /\ \E timedOut \in BOOLEAN :
          /\ timedOut => xlate.attempt >= 1 /\ faults > 0
          /\ LET r2 == BeginAttempt(xlate, TranslateContext, CollectProfile, timedOut)
                 c2 == [collect EXCEPT !.translate_calls = @ + (r2.opCalls - xlate.opCalls)]
             IN  /\ metrics' = TranslationCallbacks(metrics, xlate, r2)
                 /\ xlate' = IF r2.pc = "raised" THEN RetryStart ELSE r2
                 /\ collect' = IF r2.pc = "raised" THEN SkipBatch(c2) ELSE c2
          /\ faults' = IF timedOut THEN faults - 1 ELSE faults
    /\ UNCHANGED <<config, mailbox, tasks, yielded, retryVars, repoVars, cacheVars, recVars, streamVars, overlapVars>>

\* translate_ids returns: the mapping takes the batch's entries.
XlateReturns ==
    /\ BatchInHand
    /\ xlate.pc = "running"
    /\ LET batch == Slice(collect.messages, collect.batch_i, config.translation_batch_size)
       IN  /\ collect' = [NextBatch(collect) EXCEPT
                             !.id_mapping = Translated(@, batch)]
           /\ metrics' = [metrics EXCEPT !.ids_translated = @ + Len(batch)]
    /\ xlate' = RetryStart
    /\ UNCHANGED <<config, mailbox, tasks, yielded, faults, retryVars, repoVars, cacheVars, recVars, streamVars, overlapVars>>

\* translate_ids raises: retried, or the IdTranslationException of the
\* engine is caught and the batch skipped.
XlateRaises ==
    /\ BatchInHand
    /\ xlate.pc = "running"
    /\ faults > 0
    /\ \E e \in RemoteExceptions :
          LET r2 == OperationRaises(xlate, e, TranslateContext, CollectProfile)
          IN  /\ metrics' = TranslationCallbacks(metrics, xlate, r2)
              /\ xlate' = IF r2.pc = "raised" THEN RetryStart ELSE r2
              /\ collect' = IF r2.pc = "raised" THEN SkipBatch(collect) ELSE collect
    /\ faults' = faults - 1
    /\ UNCHANGED <<config, mailbox, tasks, yielded, retryVars, repoVars, cacheVars, recVars, streamVars, overlapVars>>

\* The backoff sleep of a translation batch is over.
XlateWake ==
    /\ BatchInHand
    /\ xlate.pc = "sleeping"
    /\ xlate' = NextAttempt(xlate)
    /\ UNCHANGED <<config, mailbox, collect, tasks, yielded, metrics, faults,
                   retryVars, repoVars, cacheVars, recVars, streamVars, overlapVars>>

\* Every batch is over: _translate_ids yields the mapping, and
\* _process_emails sets its phase and yields the processing snapshot.
ProcessStart ==
    /\ collect.pc = "translating"
    /\ collect.batch_i >= Len(collect.messages)
    /\ LET m2 == [metrics EXCEPT !.current_phase = "processing"]
       IN  /\ metrics' = m2
           /\ yielded' = Append(yielded, ProgressInfo(m2))
    /\ collect' = [collect EXCEPT !.pc = "processing", !.chunk_i = 0, !.emails = <<>>]
    /\ UNCHANGED <<config, mailbox, tasks, xlate, faults, retryVars, repoVars, cacheVars, recVars, streamVars, overlapVars>>

\* One chunk: its Email objects, emails_processed, a snapshot.
ProcessChunk ==
    /\ collect.pc = "processing"
    /\ collect.chunk_i < Len(collect.messages)
    /\ LET chunk == Slice(collect.messages, collect.chunk_i, config.email_chunk_size)
           built == ChunkEmails(chunk, collect.id_mapping)
           m2    == [metrics EXCEPT !.emails_processed = @ + Len(built)]
       IN  /\ collect' = [collect EXCEPT !.chunk_i = @ + config.email_chunk_size,
                                         !.emails = @ \o built]
           /\ metrics' = m2
           /\ yielded' = Append(yielded, ProgressInfo(m2))
    /\ UNCHANGED <<config, mailbox, tasks, xlate, faults, retryVars, repoVars, cacheVars, recVars, streamVars, overlapVars>>

\* Email.from_graph_message raises on a message of the chunk: the
\* EmailException leaves the generator, the finally block logs the metrics.
ProcessChunkRaises ==
    /\ collect.pc = "processing"
    /\ collect.chunk_i < Len(collect.messages)
    /\ faults > 0
    /\ faults' = faults - 1
    /\ collect' = [collect EXCEPT !.pc = "raised",
                                  !.error = OuterExcept(ProcessExcept("Exception"))]
    /\ metrics' = [metrics EXCEPT !.final_logs = @ + 1]
    /\ UNCHANGED <<config, mailbox, tasks, xlate, yielded, retryVars, repoVars, cacheVars, recVars, streamVars, overlapVars>>

\* The chunks are done: the list of emails is yielded, the finally block
\* logs the metrics, the generator ends.
ProcessFinish ==
    /\ collect.pc = "processing"
    /\ collect.chunk_i >= Len(collect.messages)
    /\ yielded' = Append(yielded, FinalList(collect.emails))
    /\ collect' = [collect EXCEPT !.pc = "done"]
    /\ metrics' = [metrics EXCEPT !.final_logs = @ + 1]
    /\ UNCHANGED <<config, mailbox, tasks, xlate, faults, retryVars, repoVars, cacheVars, recVars, streamVars, overlapVars>>

NextCollect ==
    \/ CollectStart
    \/ \E p \in DOMAIN tasks :
          TaskAcquire(p) \/ TaskAttempt(p) \/ TaskOpReturns(p) \/ TaskOpRaises(p) \/ TaskWake(p)
    \/ FirstPageReturned
    \/ FirstPageRaised
    \/ GatherReturns
    \/ GatherRaises
    \/ TranslateStart
    \/ XlateAttempt
    \/ XlateReturns
    \/ XlateRaises
    \/ XlateWake
    \/ ProcessStart
    \/ ProcessChunk
    \/ ProcessChunkRaises
    \/ ProcessFinish

SpecCollect == InitCollect /\ [][NextCollect]_vars

----------------------------------------------------------------------------
(* Claims about get_all_emails_by_folder_id *)

CollectCompleted == collect.pc = "done"

Lists == { i \in 1..Len(yielded) : yielded[i].kind = "list" }

\* C7 (as stated): an invocation that completes without raising has yielded
\* exactly one list, as its last item, every earlier item being a progress
\* dictionary; for a folder whose page 0 is empty that list is empty.
C7_ExactlyOneListLast ==
    CollectCompleted =>
        /\ Lists = {Len(yielded)}
        /\ Len(yielded) >= 1
        /\ mailbox = 0 => yielded[Len(yielded)].emails = <<>>

PhaseRank(phase) ==
    IF phase = "fetching" THEN 1
    ELSE IF phase = "translating" THEN 2
    ELSE IF phase = "processing" THEN 3
    ELSE 0

Snapshots == { i \in 1..Len(yielded) : yielded[i].kind = "progress" }

TranslationFinished ==
    /\ collect.pc \in {"processing", "done", "raised"}
    /\ collect.batch_i >= Len(collect.messages)
    /\ xlate.pc = "attempt"

\* C8: the phases of the yielded snapshots never move backwards through
\* fetching, translating, processing; no translation call has started while
\* a page fetch is unfinished; no Email has been built while a translation
\* batch is unfinished.
C8_PhasesMoveForward ==
    /\ \A i, j \in Snapshots :
          i < j => PhaseRank(yielded[i].phase) <= PhaseRank(yielded[j].phase)
    /\ \A i \in Snapshots : PhaseRank(yielded[i].phase) >= 1
    /\ collect.translate_calls > 0 => \A p \in DOMAIN tasks : tasks[p].st = "done"
    /\ collect.emails # <<>> => TranslationFinished

\* A run of several pages and several batches that built emails and ended
\* with the list, after snapshots of the fetching and the processing phase.
C8_Witness ==
    /\ CollectCompleted
    /\ collect.total_pages >= 3
    /\ collect.translate_calls >= 2
    /\ collect.emails # <<>>
    /\ \E i, j \in Snapshots :
          /\ yielded[i].phase = "fetching"
          /\ yielded[j].phase = "processing"

\* ceil(n / p), by its definition.
Ceil(n, p) == CHOOSE k \in 0..n : k * p >= n /\ (k - 1) * p < n

HandedToTranslation == collect.pc \in {"translate", "translating", "processing", "done"}

\* C9: for a folder of N >= 1 messages and page size P, what is handed to
\* translation comes from total_pages = ceil(N/P) pages, each of the page
\* indexes 0..total_pages-1 fetched, and is the N messages of the folder,
\* each once, in listing order, whatever order the fetches completed in.
C9_AllMessagesInOrder ==
    (HandedToTranslation /\ mailbox >= 1) =>
        /\ collect.total_pages = Ceil(mailbox, config.page_size)
        /\ DOMAIN tasks = 0..(collect.total_pages - 1)
        /\ \A p \in DOMAIN tasks : tasks[p].st = "done" /\ tasks[p].r.opCalls >= 1
        /\ collect.messages = [ k \in 1..mailbox |-> k ]

\* The hand-off of a folder whose last page is partial, after a page
\* returned before a page of lower index.
C9_Witness ==
    /\ collect.pc = "translate"
    /\ collect.overtaken
    /\ collect.total_pages >= 3
    /\ mailbox % config.page_size # 0
    /\ Len(collect.messages) = mailbox

PageFetchStarted(p) == tasks[p].st # "waiting"

\* C10: at most max_concurrent_requests (5) fetches of the pages from 1 on
\* are in progress at any moment, a fetch in its retry backoff counted, and
\* none of them has started while the fetch of page 0 is unfinished.
C10_BoundedConcurrency ==
    /\ config.max_concurrent_requests = MaxConcurrentRequests
    /\ Cardinality(Holders(tasks)) <= MaxConcurrentRequests
    /\ \A p \in GatheredPages(tasks) :
          PageFetchStarted(p) => tasks[0].st = "done"
    /\ collect.pc = "page0" => GatheredPages(tasks) = {}

\* Five fetches in progress, one of them in its backoff, and a sixth page
\* waiting for a permit.
C10_Witness ==
    /\ Cardinality(Holders(tasks)) = MaxConcurrentRequests
    /\ \E p \in Holders(tasks) : tasks[p].r.pc = "sleeping"
    /\ \E p \in GatheredPages(tasks) : tasks[p].st = "waiting"

----------------------------------------------------------------------------
(* Claims about partial failure and errors of get_all_emails_by_folder_id *)

\* The i of the batch a message of the folder falls in.
BatchOf(id) == ((id - 1) \div config.translation_batch_size) * config.translation_batch_size

Fetched == [ k \in 1..mailbox |-> k ]

InMapping(id) == id \in DOMAIN collect.id_mapping

AsEmail(id) == [source_id |-> id, message_id |-> ImmutableId(id)]

EmailsOfMapped(ids) ==
    LET kept == SelectSeq(ids, InMapping)
    IN  [ k \in DOMAIN kept |-> AsEmail(kept[k]) ]

\* C11: a translation batch given up (attempts exhausted, or an abort-listed
\* error) never makes the invocation raise; every batch is still attempted,
\* the mapping holds exactly the ids of the batches not given up, and the
\* final list holds exactly the fetched messages with an id in the mapping,
\* in fetch order.
C11_PartialTranslationTolerated ==
    /\ collect.pc = "raised" => metrics.current_phase # "translating"
    /\ collect.pc \in {"processing", "done"} =>
          /\ collect.batch_i >= mailbox
          /\ DOMAIN collect.id_mapping =
                { id \in 1..mailbox : BatchOf(id) \notin collect.skipped }
          /\ \A id \in DOMAIN collect.id_mapping :
                collect.id_mapping[id] = ImmutableId(id)
    /\ (CollectCompleted /\ mailbox >= 1) =>
          yielded[Len(yielded)] = FinalList(EmailsOfMapped(Fetched))

\* The second of three batches was given up and the run ended with the list
\* of the messages of the first and the third.
C11_Witness ==
    /\ CollectCompleted
    /\ mailbox = 2 * config.translation_batch_size + 1
    /\ collect.skipped = {config.translation_batch_size}
    /\ Len(collect.emails) = mailbox - config.translation_batch_size
    /\ metrics.translation_errors = 1

\* The same, the batch given up after the last of its attempts.
C11_WitnessExhausted ==
    /\ C11_Witness
    /\ metrics.translation_retries = PROFILES[CollectProfile].max_retries

CollectRaised == collect.pc = "raised"

PageFetchFailed == \E p \in DOMAIN tasks : tasks[p].st = "failed"

\* C12: an invocation in which a page fetch failed (attempts exhausted or
\* an abort-listed error) never gets past the fetch phase, and one that
\* raised, in the fetch phase or while building emails, raised the typed
\* email error and has yielded no list.
C12_FailureDeliversNoList ==
    /\ PageFetchFailed => Lists = {} /\ collect.pc \in {"page0", "gather", "raised"}
    /\ CollectRaised => Lists = {} /\ collect.error = "EmailException"
    /\ collect.error # "none" => CollectRaised

\* An invocation that raised while building emails, after a chunk was built
\* and snapshots were yielded.
C12_Witness ==
    /\ CollectRaised
    /\ metrics.current_phase = "processing"
    /\ collect.emails # <<>>
    /\ Len(yielded) >= 3
    /\ metrics.final_logs = 1

\* An invocation that raised because a page fetch used up its attempts.
C12_WitnessExhausted ==
    /\ CollectRaised
    /\ \E p \in GatheredPages(tasks) :
          /\ tasks[p].st = "failed"
          /\ tasks[p].r.opCalls = PROFILES[CollectProfile].max_retries
    /\ yielded # <<>>

\* The run of the scenario: the default configuration, a folder of
\* ScenarioMessages messages, ended without any failure of the remote side.
ScenarioRun ==
    /\ config = DefaultConfig
    /\ mailbox = ScenarioMessages
    /\ faults = ScenarioFaults
    /\ CollectCompleted

\* processed_emails of the yielded snapshots of the processing phase.
ProcessingSnapshots ==
    LET snaps == SelectSeq(yielded, LAMBDA y : y.kind = "progress" /\ y.phase = "processing")
    IN  [ k \in DOMAIN snaps |-> snaps[k].processed_emails ]

\* Three pages of page_size, page_size and the rest, one translation call
\* that maps every id, and the list of all the messages yielded last.
ScenarioPagesBatchAndList ==
    /\ collect.total_pages = 3
    /\ DOMAIN tasks = 0..2
    /\ [ p \in DOMAIN tasks |-> Len(tasks[p].result) ]
          = (0 :> DefaultPageSize @@ 1 :> DefaultPageSize
               @@ 2 :> ScenarioMessages - 2 * DefaultPageSize)
    /\ collect.translate_calls = 1
    /\ collect.skipped = {}
    /\ Cardinality(DOMAIN collect.id_mapping) = ScenarioMessages
    /\ Lists = {Len(yielded)}
    /\ Len(yielded[Len(yielded)].emails) = ScenarioMessages

\* C28 as stated: the scenario run fetches three pages of 50, 50 and 20
\* messages, translates the 120 ids in one batch, yields exactly two
\* snapshots of the processing phase, with processed_emails 100 and then
\* 120, and yields a final list of length 120.
C28_ScenarioTwoProcessingSnapshots ==
    ScenarioRun =>
        /\ ScenarioPagesBatchAndList
        /\ ProcessingSnapshots = <<DefaultEmailChunkSize, ScenarioMessages>>

\* C28 amended: the scenario run fetches three pages of 50, 50 and 20
\* messages, translates the 120 ids in one batch, yields exactly three
\* snapshots of the processing phase, with processed_emails 0 (before the
\* first chunk), 100 and then 120, and yields a final list of length 120.
C28_ScenarioThreeProcessingSnapshots ==
    ScenarioRun =>
        /\ ScenarioPagesBatchAndList
        /\ ProcessingSnapshots = <<0, DefaultEmailChunkSize, ScenarioMessages>>

C28_Witness ==
    /\ ScenarioRun
    /\ metrics.emails_processed = ScenarioMessages
    /\ metrics.pages_fetched = 3

SnapshotsOfPhase(phase) ==
    { i \in Snapshots : yielded[i].phase = phase }

PageRequested == \E p \in DOMAIN tasks : tasks[p].r.opCalls > 0

\* C30: each phase has yielded exactly one snapshot tagged with it before
\* its work begins: the fetching one before the first page request, the
\* translating one before the first translation call, the processing one
\* before the first chunk; and a completed run over M fetched messages has
\* yielded ceil(M / chunk_size) further snapshots of the processing phase,
\* one per chunk.
C30_OneSnapshotBeforeEachPhase ==
    /\ PageRequested => Cardinality(SnapshotsOfPhase("fetching")) = 1
    /\ collect.translate_calls > 0 => Cardinality(SnapshotsOfPhase("translating")) = 1
    /\ (collect.pc = "processing" /\ collect.chunk_i > 0) =>
          \E i \in SnapshotsOfPhase("processing") : yielded[i].processed_emails = 0
    /\ (CollectCompleted /\ collect.messages # <<>>) =>
          /\ Cardinality(SnapshotsOfPhase("fetching")) = 1
          /\ Cardinality(SnapshotsOfPhase("translating")) = 1
          /\ Cardinality(SnapshotsOfPhase("processing"))
                = 1 + Ceil(Len(collect.messages), config.email_chunk_size)

\* What the code does yield: never a translating snapshot, the fetching one
\* once page 0 is in, the processing ones as claimed.
SnapshotsAsYielded ==
    /\ SnapshotsOfPhase("translating") = {}
    /\ (PageRequested /\ collect.pc = "page0") => SnapshotsOfPhase("fetching") = {}
    /\ (CollectCompleted /\ collect.messages # <<>>) =>
          /\ Cardinality(SnapshotsOfPhase("fetching")) = 1
          /\ Cardinality(SnapshotsOfPhase("processing"))
                = 1 + Ceil(Len(collect.messages), config.email_chunk_size)

\* C31: an invocation that is over, whether it returned after the list,
\* returned on an empty folder or raised in the fetching, translating or
\* processing phase, has logged the final metrics summary exactly once.
C31_FinalMetricsLoggedOnce ==
    collect.pc \in {"done", "raised"} => metrics.final_logs = 1

\* Where the code does log: once when _process_emails was entered, never
\* when the invocation ended before the processing phase.
FinalMetricsAsLogged ==
    collect.pc \in {"done", "raised"} =>
        metrics.final_logs = IF metrics.current_phase = "processing" THEN 1 ELSE 0

\* C39: once the invocation has raised because a concurrent page fetch
\* failed terminally, nothing more is done on its behalf: no further page
\* request, retry or metrics update, the other page tasks not running on
\* after the failure was reported.
C39_NothingAfterReportedFailure ==
    (collect.pc = "raised" /\ collect.reported # <<>>) =>
        PageActivity(tasks, metrics) = collect.reported[1]

----------------------------------------------------------------------------
(* EmailCacheService *)

\* The number of steps the clock takes.
MaxClockSteps == 2

Folders == {"inbox", "archive"}

SourceIds == 1..2

\* Emails as the cache sees them: the key and the rest of the object.
CacheEmails ==
    { e \in [source_id : SourceIds, subject : {"a", "b"}] :
        e.subject = "b" => e.source_id = 1 }

\* Ids asked for: one that emails have and one that no email has.
AskedIds == {1, 3}

\* The lists of emails stored and the lists of ids asked for: of up to two
\* elements, so that an id can occur twice.
StoredLists == SeqsUpTo(CacheEmails, 2)

AskedLists == SeqsUpTo(AskedIds, 2)

\* {email.source_id: email for email in emails}: for a source_id that
\* occurs more than once the last email stays.
RECURSIVE EmailMap(_)
EmailMap(es) ==
    IF es = <<>> THEN <<>>
    ELSE LET last == es[Len(es)]
         IN  (last.source_id :> last) @@ EmailMap(SubSeq(es, 1, Len(es) - 1))

\* Mutant: the first email of a source_id stays.
StoredEntry_FirstWins(f, es, t) ==
    [ emails |-> (IF es = <<>> THEN <<>> ELSE (es[1].source_id :> es[1])) @@ EmailMap(es),
      timestamp |-> t, folder_id |-> f ]

\* CacheEntry(emails=email_map, timestamp=time.time(), folder_id=folder_id)
StoredEntry(f, es, t) ==
    [ emails |-> EmailMap(es), timestamp |-> t, folder_id |-> f ]

\* Mutant: the new emails are added to the entry the folder had.
Stored_Merged(c, f, es, t) ==
    (f :> [ StoredEntry(f, es, t) EXCEPT
              !.emails = @ @@ (IF f \in DOMAIN c THEN c[f].emails ELSE <<>>) ]) @@ c

\* self.cache[folder_id] = CacheEntry(...)
Stored(c, f, es, t) == (f :> StoredEntry(f, es, t)) @@ c

\* Mutant: the whole cache is dropped with the folder's entry.
Cleared_All(c, f) == <<>>

\* del self.cache[folder_id], when the folder is there
Cleared(c, f) == [ g \in DOMAIN c \ {f} |-> c[g] ]

\* Mutant: an entry expires when its age reaches the time-to-live.
IsExpired_AtTtl(t, entry, ttl) == t - entry.timestamp >= ttl

\* time.time() - cache_entry.timestamp > self.cache_ttl
IsExpired(t, entry, ttl) == t - entry.timestamp > ttl

\* _is_folder_cached: the answer, and the cache it leaves.
IsFolderCached(c, f, t, ttl) ==
    IF f \notin DOMAIN c THEN [cached |-> FALSE, cache |-> c]
    ELSE IF IsExpired(t, c[f], ttl) THEN [cached |-> FALSE, cache |-> Cleared(c, f)]
    ELSE [cached |-> TRUE, cache |-> c]

\* The loop of get_emails_by_ids over source_ids.
RECURSIVE FoundEmails(_, _)
FoundEmails(entry, ids) ==
    IF ids = <<>> THEN <<>>
    ELSE IF Head(ids) \in DOMAIN entry.emails
         THEN <<entry.emails[Head(ids)]>> \o FoundEmails(entry, Tail(ids))
         ELSE FoundEmails(entry, Tail(ids))

\* A call and its result; `age` is the age of the entry the call found
\* for its folder, -1 when there was none.
CallOf(op, f, arg, result) ==
    [ op |-> op, folder |-> f, arg |-> arg, result |-> result,
      age |-> IF f \in DOMAIN cache THEN wall.time - cache[f].timestamp ELSE 0 - 1 ]

InitCache ==
    /\ cache = <<>>
    /\ cache_ttl = DefaultCacheTtl
    /\ wall = [time |-> 0, steps |-> 0]
    /\ call = [op |-> "none"]
    /\ IdleRetry
    /\ IdleRepo
    /\ IdleCollect
    /\ IdleRecursive
    /\ IdleStream
    /\ IdleOverlap

\* Time passes: a second, or as long as the time-to-live.
ClockStep ==
    /\ wall.steps < MaxClockSteps
    /\ \E d \in {1, cache_ttl} :
          wall' = [time |-> wall.time + d, steps |-> wall.steps + 1]
    /\ UNCHANGED <<cache, cache_ttl, call, retryVars, repoVars, collectVars, recVars, streamVars, overlapVars>>

StoreFolderEmails ==
    /\ \E f \in Folders, es \in StoredLists :
          /\ cache' = Stored(cache, f, es, wall.time)
          /\ call' = CallOf("store", f, es, <<>>)
    /\ UNCHANGED <<cache_ttl, wall, retryVars, repoVars, collectVars, recVars, streamVars, overlapVars>>

GetEmailsByIds ==
    /\ \E f \in Folders, ids \in AskedLists :
          LET chk == IsFolderCached(cache, f, wall.time, cache_ttl)
          IN  /\ cache' = chk.cache
              /\ call' = CallOf("get", f, ids,
                                IF chk.cached THEN FoundEmails(cache[f], ids) ELSE <<>>)
    /\ UNCHANGED <<cache_ttl, wall, retryVars, repoVars, collectVars, recVars, streamVars, overlapVars>>

\* get_cache_info: None, written <<>>, or the email count and the age.
GetCacheInfo ==
    /\ \E f \in Folders :
          LET chk == IsFolderCached(cache, f, wall.time, cache_ttl)
          IN  /\ cache' = chk.cache
              /\ call' = CallOf("info", f, <<>>,
                                IF chk.cached
                                THEN <<Cardinality(DOMAIN cache[f].emails),
                                       wall.time - cache[f].timestamp>>
                                ELSE <<>>)
    /\ UNCHANGED <<cache_ttl, wall, retryVars, repoVars, collectVars, recVars, streamVars, overlapVars>>

ClearFolderCache ==
    /\ \E f \in Folders :
          /\ cache' = Cleared(cache, f)
          /\ call' = CallOf("clear", f, <<>>, <<>>)
    /\ UNCHANGED <<cache_ttl, wall, retryVars, repoVars, collectVars, recVars, streamVars, overlapVars>>

ClearAllCache ==
    /\ cache' = <<>>
    /\ call' = CallOf("clear_all", "inbox", <<>>, <<>>)
    /\ UNCHANGED <<cache_ttl, wall, retryVars, repoVars, collectVars, recVars, streamVars, overlapVars>>

NextCache ==
    \/ ClockStep
    \/ StoreFolderEmails
    \/ GetEmailsByIds
    \/ GetCacheInfo
    \/ ClearFolderCache
    \/ ClearAllCache

SpecCache == InitCache /\ [][NextCache]_vars

----------------------------------------------------------------------------
(* Claims about EmailCacheService *)

\* The step is a get_emails_by_ids on the folder the call before it stored,
\* with no call in between and the entry not yet expired.
GetAfterStore ==
    /\ call.op = "store"
    /\ call'.op = "get"
    /\ call'.folder = call.folder
    /\ call'.age <= cache_ttl

\* C13 (as stated): get_emails_by_ids right after store_folder_emails(f, E)
\* returns exactly the emails of E whose source_id is among the ids asked.
C13_ReturnsSubsetOfStored ==
    [][ GetAfterStore =>
          Range(call'.result) =
             { e \in Range(call.arg) : e.source_id \in Range(call'.arg) } ]_vars

\* The email of E that answers for a source_id: the last one that has it.
LastWith(E, id) ==
    E[CHOOSE i \in DOMAIN E :
         /\ E[i].source_id = id
         /\ \A j \in DOMAIN E : E[j].source_id = id => j <= i]

RECURSIVE ExpectedFound(_, _)
ExpectedFound(E, ids) ==
    IF ids = <<>> THEN <<>>
    ELSE IF \E i \in DOMAIN E : E[i].source_id = Head(ids)
         THEN <<LastWith(E, Head(ids))>> \o ExpectedFound(E, Tail(ids))
         ELSE ExpectedFound(E, Tail(ids))

\* C13 (amended): get_emails_by_ids right after store_folder_emails(f, E)
\* returns, for each id asked, in the order asked, the email of E with that
\* source_id, the last one of E when several share it; an id no email of E
\* has contributes nothing.
C13_ReturnsLastStoredPerId ==
    [][ GetAfterStore => call'.result = ExpectedFound(call.arg, call'.arg) ]_vars

\* A lookup of two ids in an entry stored this very second that found one.
C13_Witness ==
    /\ call.op = "get"
    /\ call.age = 0
    /\ Len(call.arg) = 2
    /\ Len(call.result) = 1
    /\ Cardinality(DOMAIN cache[call.folder].emails) = 2

IsLookup == call.op \in {"get", "info"}

\* C14 (as stated): a lookup of a folder whose entry is TTL seconds old or
\* older returns nothing and has removed the entry.
C14_ExpiredAtTtl ==
    (IsLookup /\ call.age >= cache_ttl) =>
        /\ call.result = <<>>
        /\ call.folder \notin DOMAIN cache

\* C14 (amended): a lookup of a folder whose entry is more than TTL seconds
\* old returns nothing and has removed the entry; an entry exactly TTL
\* seconds old, or younger, is still served and kept.
C14_ExpiredAfterTtl ==
    /\ (IsLookup /\ call.age > cache_ttl) =>
          /\ call.result = <<>>
          /\ call.folder \notin DOMAIN cache
    /\ (IsLookup /\ call.age >= 0 /\ call.age <= cache_ttl) =>
          /\ call.folder \in DOMAIN cache
          /\ call.op = "info" => call.result # <<>>

\* get_cache_info found an entry older than the time-to-live, answered
\* None and removed it, the other folder's entry staying.
C14_Witness ==
    /\ call.op = "info"
    /\ call.age > cache_ttl
    /\ call.result = <<>>
    /\ DOMAIN cache = Folders \ {call.folder}

\* C15: store_folder_emails(f, E) leaves for f an entry whose emails are
\* keyed by exactly the source_ids of E, each with an email of E of that
\* id, stamped with the time of the call, and leaves every other folder as
\* it was.
C15_StoreReplacesEntry ==
    [][ (call'.op = "store" /\ wall' = wall) =>
          LET f == call'.folder
              E == call'.arg
          IN  /\ f \in DOMAIN cache'
              /\ cache'[f].timestamp = wall.time
              /\ cache'[f].folder_id = f
              /\ DOMAIN cache'[f].emails = { E[i].source_id : i \in DOMAIN E }
              /\ \A id \in DOMAIN cache'[f].emails :
                    cache'[f].emails[id] = LastWith(E, id)
              /\ DOMAIN cache' \ {f} = DOMAIN cache \ {f}
              /\ \A g \in DOMAIN cache \ {f} : cache'[g] = cache[g] ]_vars

\* A store of one email over an older entry, the other folder cached.
C15_Witness ==
    /\ call.op = "store"
    /\ call.age > 0
    /\ Len(call.arg) = 1
    /\ DOMAIN cache = Folders
    /\ DOMAIN cache[call.folder].emails = {call.arg[1].source_id}
    /\ cache[call.folder].timestamp = wall.time

----------------------------------------------------------------------------
(* RecursiveEmailService.get_all_emails_recursively *)

\* Failures the remote side and the database may produce in one invocation.
MaxBudget == 3

\* The folder tree the walk is run on: a root with two subfolders, the
\* first of which has a subfolder of its own.
RootFolder == "R"

TreeFolders == {"R", "A", "A1", "B"}

Children == [R |-> <<"A", "B">>, A |-> <<"A1">>, A1 |-> <<>>, B |-> <<>>]

\* The source id of the message a folder may hold, and of a message that
\* was in a folder earlier and is there no more.
MessageOf == [R |-> 1, A |-> 2, A1 |-> 3, B |-> 4]

OldMessage == MessageOf["B"] + 1

\* The to-recipients of a message: the one of A1 has none.
Receivers(id) == IF id = MessageOf["A1"] THEN <<>> ELSE <<"to">>

\* Email.from_graph_message(msg, id_mapping[msg.id])
GraphEmail(id) ==
    [source_id |-> id, message_id |-> ImmutableId(id), receivers |-> Receivers(id)]

\* except Exception as e: raise FolderException(...) from e, in get_folder
\* and get_child_folders, whatever retry_operation raised.
FolderServiceExcept(e) == "FolderException"

\* Mutant: only a FolderException of a subfolder is skipped.
Skippable_FolderOnly(e) == e = "FolderException"

\* except (FolderException, EmailException) as e: ... continue
Skippable(e) == e \in {"FolderException", "EmailException"}

\* Mutant: the exception of the folder the invocation was called on is
\* dropped like that of a subfolder.
Propagates_Never(depth, e) == ~Skippable(e)

\* An exception raised while the folder at this depth of the recursion is
\* processed leaves get_all_emails_recursively's loop: that of the folder
\* the invocation was called on, and any that the subfolder loop re-raises.
Propagates(depth, e) == depth = 1 \/ ~Skippable(e)

\* Mutant: the persistence error has no clause of its own and is wrapped
\* like any other exception.
TopLevelExcept_Wrapped(e) ==
    IF e = "APIError" THEN [raised |-> e, event |-> FALSE]
    ELSE [raised |-> "RecursiveEmailException", event |-> TRUE]

\* The except clauses of get_all_emails_recursively: what is raised, and
\* whether an error event is yielded first.
TopLevelExcept(e) ==
    IF e = "APIError" THEN [raised |-> e, event |-> FALSE]
    ELSE IF e = "EmailPersistenceException" THEN [raised |-> e, event |-> TRUE]
    ELSE [raised |-> "RecursiveEmailException", event |-> TRUE]

\* yield {"status": "error", "message": f"...: {str(e)}"}
ErrorEvent(e) == [status |-> "error", message |-> e]

\* yield {"status": "initializing", "message": ..., "folder_id": folder_id}
InitializingEvent ==
    [status |-> "initializing", message |-> "Starting recursive email retrieval"]

\* yield {"status": "warning", "message": "No emails were found to process"}
WarningEvent == [status |-> "warning", message |-> "No emails were found to process"]

\* metrics.get_progress_info(): a dict with the phase and the counters of
\* the collection, without status and without message.
Snapshot(phase, total, processed) ==
    [phase |-> phase, total_emails |-> total, processed_emails |-> processed]

\* The status of an event; a snapshot of the collection service has none.
StatusOf(e) == IF "status" \in DOMAIN e THEN e.status ELSE "none"

\* Exception e reaches the try block of get_all_emails_recursively.
TopLevel(w, ev, e) ==
    [ w  |-> [w EXCEPT !.pc = "raised", !.stack = <<>>,
                       !.error = TopLevelExcept(e).raised],
      ev |-> IF TopLevelExcept(e).event THEN Append(ev, ErrorEvent(e)) ELSE ev ]

\* Exception e is raised while folder f, the innermost of the recursion, is
\* processed: it leaves the invocation, or the loop of the parent folder
\* drops it and goes on with the next subfolder.
FolderRaised(w, ev, f, e) ==
    LET w1   == [w EXCEPT !.failed = @ \cup {[folder |-> f, at |-> w.stack[Len(w.stack)].pc]}]
        rest == SubSeq(w.stack, 1, Len(w.stack) - 1)
    IN  IF Propagates(Len(w.stack), e)
        THEN TopLevel(w1, ev, e)
        ELSE [ w  |-> [w1 EXCEPT !.stack = rest,
                                 !.skipped = @ \cup {f},
                                 !.pc = IF rest = <<>> THEN "walked" ELSE "walk"],
               ev |-> ev ]

Frame(f) == [folder |-> f, pc |-> "folder", next |-> 1]

WalkStart ==
    [ pc         |-> "start",
      stack      |-> <<>>,      \* the recursion, the folder in hand on top
      all_emails |-> <<>>,
      entered    |-> <<>>,      \* the folders get_folder was called for
      failed     |-> {},        \* the folders whose own processing raised, and where
      skipped    |-> {},        \* the folders a parent's loop dropped
      api        |-> {},        \* the folders the remote raised an APIError for
      recipients |-> <<>>,      \* all_recipients
      save       |-> RetryStart,\* the retry state of bulk_save_recipients
      error      |-> "none",    \* the exception the invocation raised
      run        |-> 1,         \* the invocations made of the service so far
      first      |-> <<>> ]     \* how the invocation before this one ended

Top == walk.stack[Len(walk.stack)]

InFolder(pc) ==
    /\ walk.pc = "walk"
    /\ walk.stack # <<>>
    /\ Top.pc = pc

Advance_Top(w, pc) == [w EXCEPT !.stack[Len(w.stack)].pc = pc]

NoteApi(w, f, cause) ==
    IF cause = "APIError" THEN [w EXCEPT !.api = @ \cup {f}] ELSE w

InitRecursive ==
    /\ remote \in [TreeFolders -> {0, 1}]
    /\ walk = WalkStart
    /\ events = <<>>
    /\ recipientRows = <<>>
    /\ budget = MaxBudget
    /\ cache_ttl = DefaultCacheTtl
    /\ wall \in {[time |-> 0, steps |-> 0], [time |-> DefaultCacheTtl + 1, steps |-> 0]}
    /\ cache \in { <<>>,
                   ("A" :> StoredEntry("A", <<GraphEmail(MessageOf["A"])>>, 0)),
                   ("A" :> StoredEntry("A", <<GraphEmail(OldMessage)>>, 0)) }
    /\ call = [op |-> "none"]
    /\ emails = <<>>
    /\ table \in {{}, {MessageOf["A"]}}
    /\ persist = [pc |-> "idle"]
    /\ sessionMaker = TRUE
    /\ IdleRetry
    /\ IdleCollect
    /\ IdleStream
    /\ IdleOverlap

\* The messages of a folder, as get_all_emails_by_folder_id lists them.
FolderEmails(f) == IF remote[f] = 0 THEN <<>> ELSE <<GraphEmail(MessageOf[f])>>

\* yield {"status": "initializing", ...}, then the walk begins.
RecStart ==
    /\ walk.pc = "start"
    /\ walk' = [walk EXCEPT !.pc = "walk", !.stack = <<Frame(RootFolder)>>]
    /\ events' = Append(events, InitializingEvent)
    /\ UNCHANGED <<remote, recipientRows, budget, cacheVars, retryVars, repoVars, collectVars, streamVars, overlapVars>>

\* folder = await self.folder_service.get_folder(folder_id)
GetFolder ==
    /\ InFolder("folder")
    /\ walk' = [Advance_Top(walk, "children") EXCEPT !.entered = Append(@, Top.folder)]
    /\ UNCHANGED <<remote, events, recipientRows, budget, cacheVars, retryVars,
                   repoVars, collectVars, streamVars, overlapVars>>

\* get_folder raises: the remote failed, the folder service made it a
\* FolderException.
GetFolderRaises ==
    /\ InFolder("folder")
    /\ budget > 0
    /\ \E cause \in RemoteExceptions :
          LET w1  == [NoteApi(walk, Top.folder, cause) EXCEPT !.entered = Append(@, Top.folder)]
              out == FolderRaised(w1, events, Top.folder, FolderServiceExcept(cause))
          IN  walk' = out.w /\ events' = out.ev
    /\ budget' = budget - 1
    /\ UNCHANGED <<remote, recipientRows, cacheVars, retryVars, repoVars, collectVars, streamVars, overlapVars>>

\* subfolders = await self.folder_service.get_child_folders(folder_id)
GetChildFolders ==
    /\ InFolder("children")
    /\ walk' = Advance_Top(walk, "collect")
    /\ UNCHANGED <<remote, events, recipientRows, budget, cacheVars, retryVars,
                   repoVars, collectVars, streamVars, overlapVars>>

GetChildFoldersRaises ==
    /\ InFolder("children")
    /\ budget > 0
    /\ \E cause \in RemoteExceptions :
          LET out == FolderRaised(NoteApi(walk, Top.folder, cause), events, Top.folder,
                                  FolderServiceExcept(cause))
          IN  walk' = out.w /\ events' = out.ev
    /\ budget' = budget - 1
    /\ UNCHANGED <<remote, recipientRows, cacheVars, retryVars, repoVars, collectVars, streamVars, overlapVars>>

\* list(entry.emails.values()), by ascending key.
RECURSIVE MapValues(_)
MapValues(m) ==
    IF DOMAIN m = {} THEN <<>>
    ELSE LET k == CHOOSE x \in DOMAIN m : \A y \in DOMAIN m : x <= y
         IN  <<m[k]>> \o MapValues([ y \in DOMAIN m \ {k} |-> m[y] ])

\* [email for email in item if email.source_id not in cached_ids]
RECURSIVE NotCached(_, _)
\* Mutant: the fetched emails are not filtered against the cached ones.
NotCached_Unfiltered(item, cached) == item

\* [email for email in item if email.source_id not in cached_ids]
NotCached(item, cached) ==
    IF item = <<>> THEN <<>>
    ELSE IF \E i \in DOMAIN cached : cached[i].source_id = Head(item).source_id
         THEN NotCached(Tail(item), cached)
         ELSE <<Head(item)>> \o NotCached(Tail(item), cached)

\* Mutant: the kind of progress is put in the status field.
Progress_StatusIsKind(f, what, n) ==
    [status |-> what, message |-> [what |-> what, count |-> n], folder_id |-> f]

\* yield {"status": "progress", "message": f"...", "folder_id": folder_id}
Progress(f, what, n) ==
    [status |-> "progress", message |-> [what |-> what, count |-> n], folder_id |-> f]

\* A call of the cache service made on cache c.
CallOn(c, op, f, arg, result) ==
    [ op |-> op, folder |-> f, arg |-> arg, result |-> result,
      age |-> IF f \in DOMAIN c THEN wall.time - c[f].timestamp ELSE 0 - 1 ]

\* get_cache_info(folder_id) and the cached emails read after it.
CacheLookup(f) ==
    LET chk == IsFolderCached(cache, f, wall.time, cache_ttl)
    IN  [ cache  |-> chk.cache,
          cached |-> IF chk.cached THEN MapValues(cache[f].emails) ELSE <<>>,
          info   |-> chk.cached,
          call   |-> CallOn(cache, "info", f, <<>>,
                            IF chk.cached
                            THEN <<Cardinality(DOMAIN cache[f].emails),
                                   wall.time - cache[f].timestamp>>
                            ELSE <<>>) ]

\* The snapshots get_all_emails_by_folder_id yields for folder f: the one of
\* the fetching phase and, when the folder has messages, the one that opens
\* the processing phase and the one of its only chunk (the snapshot of the
\* translating phase is taken for the id mapping and not yielded).
SnapshotsOf(f) ==
    IF remote[f] = 0
    THEN << Snapshot("fetching", 0, 0) >>
    ELSE << Snapshot("fetching", remote[f], 0),
            Snapshot("processing", remote[f], 0),
            Snapshot("processing", remote[f], remote[f]) >>

\* The snapshots yielded before get_all_emails_by_folder_id raises: none
\* when the first page fails, those before the chunk when a message of
\* the chunk fails.
SnapshotsBeforeRaise(f) ==
    IF remote[f] = 0 THEN { <<>> } ELSE { <<>>, SubSeq(SnapshotsOf(f), 1, 2) }

\* The cache lookup, the whole get_all_emails_by_folder_id call and what is
\* done with the list it yields last; an empty folder yields no list. The
\* emails of the folder go to all_emails of the caller.
CollectFolder ==
    /\ InFolder("collect")
    /\ LET f      == Top.folder
           look   == CacheLookup(f)
           cached == look.cached
           ev1    == IF look.info
                     THEN Append(events, Progress(f, "cache", Len(cached)))
                     ELSE events
           ev2    == ev1 \o SnapshotsOf(f)
           item   == FolderEmails(f)
           fresh  == IF cached # <<>> THEN NotCached(item, cached) ELSE item
           stores == item # <<>> /\ (cached = <<>> \/ fresh # <<>>)
           stored == IF cached # <<>> THEN cached \o fresh ELSE fresh
       IN  /\ cache' = IF stores THEN Stored(look.cache, f, stored, wall.time)
                       ELSE look.cache
           /\ call' = IF stores THEN CallOn(look.cache, "store", f, stored, <<>>)
                      ELSE look.call
           /\ events' = IF stores
                        THEN Append(ev2, Progress(f, IF cached # <<>> THEN "new" ELSE "retrieved",
                                                  Len(fresh)))
                        ELSE ev2
           /\ walk' = [Advance_Top(walk, "loop") EXCEPT
                          !.all_emails = @ \o cached \o fresh]
    /\ UNCHANGED <<remote, recipientRows, budget, cache_ttl, wall, retryVars,
                   repoVars, collectVars, streamVars, overlapVars>>

\* The cache lookup, then get_all_emails_by_folder_id raises its
\* EmailException: a page fetch or the building of the emails failed.
CollectFolderRaises ==
    /\ InFolder("collect")
    /\ budget > 0
    /\ LET f    == Top.folder
           look == CacheLookup(f)
           ev1  == IF look.info
                   THEN Append(events, Progress(f, "cache", Len(look.cached)))
                   ELSE events
       IN  /\ cache' = look.cache
           /\ call' = look.call
           /\ \E cause \in RemoteExceptions, snaps \in SnapshotsBeforeRaise(f) :
                 LET out == FolderRaised(NoteApi(walk, f, cause), ev1 \o snaps, f,
                                         OuterExcept(cause))
                 IN  walk' = out.w /\ events' = out.ev
    /\ budget' = budget - 1
    /\ UNCHANGED <<remote, recipientRows, cache_ttl, wall, retryVars, repoVars, collectVars, streamVars, overlapVars>>

\* Mutant: the subfolders are entered while the folder's own collection is
\* still to be done.
SubfolderLoop_BeforeCollection(frame) == frame.pc \in {"collect", "loop"}

\* The folder has yielded its own emails and is at "for folder in
\* subfolders".
SubfolderLoop(frame) == frame.pc = "loop"

\* for folder in subfolders: the recursive call for the next subfolder.
EnterChild ==
    /\ walk.pc = "walk"
    /\ walk.stack # <<>>
    /\ SubfolderLoop(Top)
    /\ Top.next <= Len(Children[Top.folder])
    /\ walk' = [walk EXCEPT
                  !.stack = Append([@ EXCEPT ![Len(@)].next = @ + 1],
                                   Frame(Children[Top.folder][Top.next]))]
    /\ UNCHANGED <<remote, events, recipientRows, budget, cacheVars, retryVars,
                   repoVars, collectVars, streamVars, overlapVars>>

\* The subfolders are done: the generator of this folder ends.
ReturnFromFolder ==
    /\ InFolder("loop")
    /\ Top.next > Len(Children[Top.folder])
    /\ LET rest == SubSeq(walk.stack, 1, Len(walk.stack) - 1)
       IN  walk' = [walk EXCEPT !.stack = rest,
                                !.pc = IF rest = <<>> THEN "walked" ELSE "walk"]
    /\ UNCHANGED <<remote, events, recipientRows, budget, cacheVars, retryVars,
                   repoVars, collectVars, streamVars, overlapVars>>

\* Nothing was collected: the warning event, then the RecursiveEmailException,
\* which the except Exception clause of the same try block catches.
NoEmails ==
    /\ walk.pc = "walked"
    /\ walk.all_emails = <<>>
    /\ LET out == TopLevel(walk, Append(events, WarningEvent),
                           "RecursiveEmailException")
       IN  walk' = out.w /\ events' = out.ev
    /\ UNCHANGED <<remote, recipientRows, budget, cacheVars, retryVars, repoVars, collectVars, streamVars, overlapVars>>

\* EmailUtils.email_to_db_email_recursive: the source id goes to both
\* graph_message_id and graph_source_id.
DbEmailRecursive(email, fault) ==
    [ graph_message_id |-> email.source_id,
      graph_source_id  |-> email.source_id,
      fault            |-> fault ]

Faulty(fs) == Cardinality({ i \in DOMAIN fs : fs[i] # "none" })

\* db_emails is built and bulk_save_emails is called.
SaveStart ==
    /\ walk.pc = "walked"
    /\ walk.all_emails # <<>>
    /\ \E fs \in [DOMAIN walk.all_emails -> RecordFaults] :
          /\ Faulty(fs) <= budget
          /\ emails' = [ i \in DOMAIN walk.all_emails |->
                           DbEmailRecursive(walk.all_emails[i], fs[i]) ]
          /\ budget' = budget - Faulty(fs)
    /\ persist' = PersistStart(table)
    /\ walk' = [walk EXCEPT !.pc = "save"]
    /\ UNCHANGED <<table, sessionMaker, remote, events, recipientRows, cacheVars,
                   retryVars, collectVars, streamVars, overlapVars>>

\* The email_id the database gave the record at input position i when it
\* committed it; None, written 0, for a record that was not committed.
RowId(ps, i) ==
    IF i \in ps.committed
    THEN Cardinality(ps.before) + Cardinality({ j \in ps.committed : j <= i })
    ELSE 0

\* The DBEmail objects of a bucket, as bulk_save_emails returns them.
Bucket(ps, positions) ==
    [ k \in DOMAIN positions |->
        [ email_id         |-> RowId(ps, positions[k]),
          graph_message_id |-> emails[positions[k]].graph_message_id,
          graph_source_id  |-> emails[positions[k]].graph_source_id ] ]

\* db_email_map = {db_email.graph_source_id: db_email for db_email in ...}
RECURSIVE SourceMap(_)
SourceMap(records) ==
    IF records = <<>> THEN <<>>
    ELSE LET last == records[Len(records)]
         IN  (last.graph_source_id :> last) @@ SourceMap(SubSeq(records, 1, Len(records) - 1))

\* EmailUtils.extract_recipients_from_email: one row per address; `of`
\* remembers the collected Email the row was made from.
RECURSIVE RecipientsOf(_, _, _)
RecipientsOf(email, addrs, email_id) ==
    IF addrs = <<>> THEN <<>>
    ELSE <<[email_id |-> email_id, email_address |-> Head(addrs), of |-> email.source_id]>>
         \o RecipientsOf(email, Tail(addrs), email_id)

\* Mutant: the recipients of the duplicate records are extracted as well.
RecordsForRecipients_WithDuplicates(ps) == Bucket(ps, ps.successful \o ps.duplicate)

\* The records handed to extract_recipients_from_init_response_emails.
RecordsForRecipients(ps) == Bucket(ps, ps.successful)

\* EmailUtils.extract_recipients_from_init_response_emails
RECURSIVE ExtractRecipients(_, _)
ExtractRecipients(collected, records) ==
    IF collected = <<>> THEN <<>>
    ELSE LET email == Head(collected)
             map   == SourceMap(records)
             rest  == ExtractRecipients(Tail(collected), records)
         IN  IF email.source_id \in DOMAIN map
             THEN RecipientsOf(email, email.receivers, map[email.source_id].email_id) \o rest
             ELSE rest

Field(records, name) == [ k \in DOMAIN records |-> records[k][name] ]

\* extract_email_ids_from_results and the persistence_complete event.
CompleteEvent(ps) ==
    LET successful == Field(Bucket(ps, ps.successful), "email_id")
        duplicates == Field(Bucket(ps, ps.duplicate), "graph_message_id")
        failures   == Field(Bucket(ps, ps.failed), "graph_source_id")
    IN  [ status       |-> "persistence_complete",
          message      |-> <<Len(ps.successful), Len(ps.duplicate), Len(ps.failed)>>,
          total_emails |-> Len(successful) + Len(duplicates) + Len(failures),
          successful   |-> successful,
          duplicates   |-> duplicates,
          failures     |-> failures ]

\* bulk_save_recipients: RetryContext without custom exception or callbacks,
\* on a STANDARD retry service.
RecipientContext ==
    [ custom_exception |-> FALSE, metrics_recorder |-> FALSE,
      error_recorder |-> FALSE, abort_on_exceptions |-> {} ]

RecipientProfile == "STANDARD"

\* bulk_save_emails returned its buckets: the recipients are extracted;
\* without any the event is yielded at once.
SaveReturned ==
    /\ walk.pc = "save"
    /\ persist.pc = "returned"
    /\ LET recipients == IF persist.successful # <<>>
                         THEN ExtractRecipients(walk.all_emails, RecordsForRecipients(persist))
                         ELSE <<>>
       IN  IF recipients # <<>>
           THEN /\ walk' = [walk EXCEPT !.pc = "recipients", !.recipients = recipients]
                /\ events' = events
           ELSE /\ walk' = [walk EXCEPT !.pc = "done"]
                /\ events' = Append(events, CompleteEvent(persist))
    /\ UNCHANGED <<remote, recipientRows, budget, cacheVars, retryVars, repoVars, collectVars, streamVars, overlapVars>>

\* bulk_save_emails raised its EmailPersistenceException.
SaveRaised ==
    /\ walk.pc = "save"
    /\ persist.pc = "raised"
    /\ LET out == TopLevel(walk, events, "EmailPersistenceException")
       IN  walk' = out.w /\ events' = out.ev
    /\ UNCHANGED <<remote, recipientRows, budget, cacheVars, retryVars, repoVars, collectVars, streamVars, overlapVars>>

\* The head of an attempt of bulk_save_recipients.
RecipientsAttempt ==
    /\ walk.pc = "recipients"
    /\ walk.save.pc = "attempt"
    /\ walk' = [walk EXCEPT !.save = BeginAttempt(@, RecipientContext, RecipientProfile, FALSE)]
    /\ UNCHANGED <<remote, events, recipientRows, budget, cacheVars, retryVars,
                   repoVars, collectVars, streamVars, overlapVars>>

\* _execute_persist committed every recipient: the event is yielded.
RecipientsSaved ==
    /\ walk.pc = "recipients"
    /\ walk.save.pc = "running"
    /\ recipientRows' = walk.recipients
    /\ walk' = [walk EXCEPT !.pc = "done", !.save = OperationReturns(@)]
    /\ events' = Append(events, CompleteEvent(persist))
    /\ UNCHANGED <<remote, budget, cacheVars, retryVars, repoVars, collectVars, streamVars, overlapVars>>

\* Mutant: a failed recipient save is reported as a warning and the
\* invocation completes.
RecipientsFailed_Downgraded(w, ev) ==
    [ w  |-> [w EXCEPT !.pc = "done"],
      ev |-> Append(Append(ev, WarningEvent), CompleteEvent(persist)) ]

\* await bulk_save_recipients(all_recipients) raised: nothing around line 72
\* catches it, the EmailPersistenceException reaches the except clauses.
RecipientsFailed(w, ev) == TopLevel(w, ev, "EmailPersistenceException")

\* _execute_persist raises its EmailPersistenceException at a recipient, the
\* ones before it committed (those an earlier attempt committed are added to
\* the session again and not inserted again): retried, or raised to the
\* caller.
RecipientsRaise ==
    /\ walk.pc = "recipients"
    /\ walk.save.pc = "running"
    /\ budget > 0
    /\ budget' = budget - 1
    /\ \E k \in Len(recipientRows)..(Len(walk.recipients) - 1) :
          recipientRows' = SubSeq(walk.recipients, 1, k)
    /\ LET r2 == OperationRaises(walk.save, "EmailPersistenceException",
                                 RecipientContext, RecipientProfile)
       IN  IF r2.pc = "raised"
           THEN LET out == RecipientsFailed([walk EXCEPT !.save = r2], events)
                IN  walk' = out.w /\ events' = out.ev
           ELSE walk' = [walk EXCEPT !.save = r2] /\ events' = events
    /\ UNCHANGED <<remote, cacheVars, retryVars, repoVars, collectVars, streamVars, overlapVars>>

\* The backoff sleep of bulk_save_recipients is over.
RecipientsWake ==
    /\ walk.pc = "recipients"
    /\ walk.save.pc = "sleeping"
    /\ walk' = [walk EXCEPT !.save = NextAttempt(@)]
    /\ UNCHANGED <<remote, events, recipientRows, budget, cacheVars, retryVars,
                   repoVars, collectVars, streamVars, overlapVars>>

NextRecursive ==
    \/ RecStart
    \/ GetFolder
    \/ GetFolderRaises
    \/ GetChildFolders
    \/ GetChildFoldersRaises
    \/ CollectFolder
    \/ CollectFolderRaises
    \/ EnterChild
    \/ ReturnFromFolder
    \/ NoEmails
    \/ SaveStart
    \/ OpenSession
    \/ PersistRecord
    \/ BulkSaveFinish
    \/ SaveReturned
    \/ SaveRaised
    \/ RecipientsAttempt
    \/ RecipientsSaved
    \/ RecipientsRaise
    \/ RecipientsWake

SpecRecursive == InitRecursive /\ [][NextRecursive]_vars

TwiceBudget == 1

InitTwice ==
    /\ remote \in [TreeFolders -> {0, 1}]
    /\ walk = WalkStart
    /\ events = <<>>
    /\ recipientRows = <<>>
    /\ budget = TwiceBudget
    /\ cache_ttl = DefaultCacheTtl
    /\ wall = [time |-> 0, steps |-> 0]
    /\ cache = <<>>
    /\ call = [op |-> "none"]
    /\ emails = <<>>
    /\ table \in {{}, {MessageOf["A"]}}
    /\ persist = [pc |-> "idle"]
    /\ sessionMaker = TRUE
    /\ IdleRetry
    /\ IdleCollect
    /\ IdleStream
    /\ IdleOverlap

\* The invocation is over and get_all_emails_recursively is called again for
\* the same folder of the same mailbox: the service objects, the cache
\* among them, and the database are as the first invocation left them, and
\* the entries of the cache may have expired meanwhile.
SecondRun ==
    /\ walk.pc \in {"done", "raised"}
    /\ walk.run = 1
    /\ walk' = [WalkStart EXCEPT
                  !.run = 2,
                  !.first = [ pc         |-> walk.pc,
                              rows       |-> table,
                              recipients |-> recipientRows,
                              failed     |-> IF persist.pc = "idle" THEN <<>>
                                             ELSE persist.failed,
                              skipped    |-> walk.skipped,
                              budget     |-> budget ]]
    /\ events' = <<>>
    /\ emails' = <<>>
    /\ persist' = [pc |-> "idle"]
    /\ \E later \in {0, DefaultCacheTtl + 1} : wall' = [wall EXCEPT !.time = @ + later]
    /\ UNCHANGED <<table, sessionMaker, remote, recipientRows, budget, cache, cache_ttl,
                   call, retryVars, collectVars, streamVars, overlapVars>>

NextTwice == NextRecursive \/ SecondRun

SpecTwice == InitTwice /\ [][NextTwice]_vars

\* The event loop resumes the one coroutine of the invocation whenever it
\* can go on: an awaited call returns or raises, a retry delay elapses.
\* The walk does not read the table; it is taken empty and the clock at 0.
InitRecursiveFair == InitRecursive /\ table = {} /\ wall.time = 0

SpecRecursiveFair == InitRecursiveFair /\ [][NextRecursive]_vars /\ WF_vars(NextRecursive)

----------------------------------------------------------------------------
(* Claims about the recursive walk and its persistence *)

FailedFolders == { r.folder : r \in walk.failed }

\* The folder a collected email came from.
OwnerOf(id) ==
    IF id = OldMessage THEN "A"
    ELSE CHOOSE f \in TreeFolders : MessageOf[f] = id

RECURSIVE Subtree(_)
Subtree(f) ==
    {f} \cup UNION { Subtree(Children[f][k]) : k \in DOMAIN Children[f] }

\* The folders in the order the walk has to enter them: a folder, then the
\* subtrees of its subfolders in their listed order, nothing below a folder
\* whose processing failed.
RECURSIVE Visit(_)
RECURSIVE VisitAll(_)
Visit(f) ==
    IF f \in FailedFolders THEN <<f>> ELSE <<f>> \o VisitAll(Children[f])
VisitAll(fs) ==
    IF fs = <<>> THEN <<>> ELSE Visit(Head(fs)) \o VisitAll(Tail(fs))

IsPrefix(p, q) == Len(p) <= Len(q) /\ SubSeq(q, 1, Len(p)) = p

PositionIn(q, x) == CHOOSE k \in DOMAIN q : q[k] = x

\* The folder is entered and past its own get_folder, get_child_folders and
\* collection without having failed.
Collected(f) ==
    /\ f \in Range(walk.entered)
    /\ f \notin FailedFolders
    /\ ~(walk.pc = "walk" /\ walk.stack # <<>> /\ Top.folder = f /\ Top.pc # "loop")

WalkOver == walk.pc \notin {"start", "walk"}

\* C16: a folder-access or email-fetch error in a subfolder is dropped by
\* the loop of its parent: no email of the subfolder's subtree is among the
\* collected ones, the invocation is not ended by it, the folders are
\* entered in the order of the tree with only the subtrees below failed
\* folders left out, and the emails of every other folder, in that order,
\* are the ones handed to bulk_save_emails.
C16_SubfolderErrorSkipsSubtree ==
    /\ \A r \in walk.failed : r.folder # RootFolder => r.folder \in walk.skipped
    /\ \A f \in walk.skipped : \A g \in Subtree(f) :
          /\ \A i \in DOMAIN walk.all_emails : OwnerOf(walk.all_emails[i].source_id) # g
          /\ g # f => g \notin Range(walk.entered)
    /\ (walk.skipped # {} /\ RootFolder \notin FailedFolders /\ WalkOver) =>
          \/ walk.pc # "raised"
          \/ events[Len(events)].message \in {"RecursiveEmailException", "EmailPersistenceException"}
    /\ IsPrefix(walk.entered, Visit(RootFolder))
    /\ WalkOver => walk.entered = Visit(RootFolder)
    /\ \A f \in TreeFolders : (Collected(f) /\ remote[f] = 1) =>
          \E i \in DOMAIN walk.all_emails : walk.all_emails[i].source_id = MessageOf[f]
    /\ \A i \in DOMAIN walk.all_emails :
          LET f == OwnerOf(walk.all_emails[i].source_id)
          IN  /\ f \in Range(walk.entered) \ FailedFolders
              /\ \A j \in DOMAIN walk.all_emails : i < j =>
                    PositionIn(walk.entered, f)
                        <= PositionIn(walk.entered, OwnerOf(walk.all_emails[j].source_id))
    /\ walk.pc \in {"save", "recipients", "done"} =>
          Field(emails, "graph_source_id") = Field(walk.all_emails, "source_id")

\* The collection of A failed after its lookup and listing, its subfolder
\* was never entered, B was walked after it and the emails of R and B were
\* saved.
C16_Witness ==
    /\ walk.pc = "done"
    /\ walk.failed = {[folder |-> "A", at |-> "collect"]}
    /\ walk.skipped = {"A"}
    /\ walk.entered = <<"R", "A", "B">>
    /\ Field(emails, "graph_source_id") = <<MessageOf["R"], MessageOf["B"]>>
    /\ persist.pc = "returned"

\* C17 as stated: once the remote service has raised an APIError for a
\* folder of the walk, at its lookup, its child listing or a page fetch, the
\* invocation has been ended by that APIError and the folder was not dropped
\* as a skippable subfolder.
C17_ApiErrorAlwaysPropagates ==
    walk.api # {} =>
        /\ walk.pc = "raised"
        /\ walk.error = "APIError"
        /\ walk.api \cap walk.skipped = {}

HasEvent(status) == \E k \in DOMAIN events : StatusOf(events[k]) = status

\* C18: a folder-access or email-fetch error in the folder the invocation
\* was called on ends the invocation with a raised error: the invocation is
\* over with a RecursiveEmailException, its last event the error event of
\* that failure; from the failure on no subfolder is entered, bulk_save_emails
\* is not called and no persistence_complete event is emitted.
C18_RootErrorIsFatal ==
    RootFolder \in FailedFolders =>
        /\ walk.pc = "raised"
        /\ walk.error = "RecursiveEmailException"
        /\ walk.stack = <<>>
        /\ walk.entered = <<RootFolder>>
        /\ persist.pc = "idle"
        /\ emails = <<>>
        /\ recipientRows = <<>>
        /\ ~HasEvent("persistence_complete")
        /\ StatusOf(events[Len(events)]) = "error"
        /\ events[Len(events)].message \in {"FolderException", "EmailException"}

\* The collection of the root folder failed after its lookup and listing,
\* with messages waiting in the subfolders.
C18_Witness ==
    /\ walk.failed = {[folder |-> RootFolder, at |-> "collect"]}
    /\ walk.pc = "raised"
    /\ remote["A"] = 1
    /\ remote["B"] = 1
    /\ events[Len(events)] = ErrorEvent("EmailException")

\* The input positions of bulk_save_emails whose record went to a bucket.
InBucket(bucket) == { bucket[k] : k \in DOMAIN bucket }

RefersToSuccessful(row) ==
    /\ \E p \in InBucket(persist.successful) :
          /\ row.email_id = RowId(persist, p)
          /\ row.of = emails[p].graph_source_id
          /\ \E i \in DOMAIN walk.all_emails :
                /\ walk.all_emails[i].source_id = row.of
                /\ row.email_address \in Range(walk.all_emails[i].receivers)
    /\ \A p \in InBucket(persist.duplicate) \cup InBucket(persist.failed) :
          row.of # emails[p].graph_source_id

\* C19: every recipient row saved carries the email_id of a record of the
\* successful bucket of this invocation's bulk_save_emails and was made from
\* the collected Email with that record's source id; none was made from an
\* email that went to the duplicate or failed bucket; and rows exist only
\* once bulk_save_emails has returned.
C19_RecipientsOnlyOfSuccessful ==
    /\ \A k \in DOMAIN recipientRows : RefersToSuccessful(recipientRows[k])
    /\ \A k \in DOMAIN walk.recipients : RefersToSuccessful(walk.recipients[k])
    /\ (recipientRows # <<>> \/ walk.recipients # <<>>) => persist.pc = "returned"

\* Recipients were saved in an invocation in which one email was saved, one
\* was a duplicate and one failed, each of them with a recipient.
C19_Witness ==
    /\ walk.pc = "done"
    /\ recipientRows # <<>>
    /\ \E p \in InBucket(persist.duplicate) :
          Receivers(emails[p].graph_source_id) # <<>>
    /\ \E p \in InBucket(persist.failed) :
          Receivers(emails[p].graph_source_id) # <<>>

CompleteEvents == SelectSeq(events, LAMBDA e : StatusOf(e) = "persistence_complete")

\* The stable message id of the collected Email a record was made from.
StableIdOf(record) == ImmutableId(record.graph_source_id)

\* C20 as stated: an invocation that collected emails and whose email and
\* recipient persistence did not raise has emitted exactly one
\* persistence_complete event, as its last event; its lists are the
\* email_ids of the saved records, the stable message ids of the duplicate
\* records and the source ids of the failed records, and total_emails is
\* the sum of their lengths and the number of emails collected.
C20_CompleteEventSummarises ==
    walk.pc = "done" =>
        /\ walk.all_emails # <<>>
        /\ Len(CompleteEvents) = 1
        /\ StatusOf(events[Len(events)]) = "persistence_complete"
        /\ LET e == events[Len(events)]
           IN  /\ e.successful = [ k \in DOMAIN persist.successful |->
                                     RowId(persist, persist.successful[k]) ]
               /\ e.duplicates = [ k \in DOMAIN persist.duplicate |->
                                     StableIdOf(emails[persist.duplicate[k]]) ]
               /\ e.failures = [ k \in DOMAIN persist.failed |->
                                   emails[persist.failed[k]].graph_source_id ]
               /\ e.total_emails = Len(e.successful) + Len(e.duplicates) + Len(e.failures)
               /\ e.total_emails = Len(walk.all_emails)

EmptyTree == \A f \in TreeFolders : remote[f] = 0

ProgressOf(kinds) ==
    { k \in DOMAIN events : StatusOf(events[k]) = "progress" /\ events[k].message.what \in kinds }

\* C21 as stated, for a tree without any email in which no folder fails and
\* the cache gives nothing: the first event is the initializing one, no
\* progress event reports retrieved or new emails, bulk_save_emails is not
\* called, and the invocation ends raising the recursive-email error with
\* the warning as the last event emitted.
C21_EmptyTreeWarnsThenRaises ==
    (EmptyTree /\ walk.failed = {} /\ walk.all_emails = <<>>) =>
        /\ events # <<>> => StatusOf(events[1]) = "initializing"
        /\ ProgressOf({"retrieved", "new"}) = {}
        /\ persist.pc = "idle"
        /\ walk.pc # "done"
        /\ walk.pc = "raised" =>
              /\ walk.error = "RecursiveEmailException"
              /\ HasEvent("warning")
              /\ StatusOf(events[Len(events)]) = "warning"

ErrorEvents == SelectSeq(events, LAMBDA e : StatusOf(e) = "error")

\* C22: when bulk_save_emails raises, the orchestrator ends raising that
\* EmailPersistenceException after exactly one error event, its last event;
\* it emits no persistence_complete event and bulk_save_recipients is not
\* called.
C22_PersistenceErrorReRaised ==
    persist.pc = "raised" =>
        /\ walk.pc \in {"save", "raised"}
        /\ walk.save.opCalls = 0
        /\ walk.recipients = <<>>
        /\ recipientRows = <<>>
        /\ ~HasEvent("persistence_complete")
        /\ walk.pc = "save" => ErrorEvents = <<>>
        /\ walk.pc = "raised" =>
              /\ walk.error = "EmailPersistenceException"
              /\ ErrorEvents = <<ErrorEvent("EmailPersistenceException")>>
              /\ events[Len(events)] = ErrorEvent("EmailPersistenceException")

\* bulk_save_emails raised on an unknown error after it had committed a
\* record, and the invocation has ended.
C22_Witness ==
    /\ persist.pc = "raised"
    /\ persist.committed # {}
    /\ walk.pc = "raised"
    /\ Len(walk.all_emails) > 1

\* C23: a failure of bulk_save_recipients ends the invocation with the
\* persistence error raised, after an error event and without a
\* persistence_complete event, whatever bulk_save_emails returned; no
\* warning stands in for it.
C23_RecipientFailureIsFatal ==
    walk.save.pc = "raised" =>
        /\ persist.pc = "returned"
        /\ walk.pc = "raised"
        /\ walk.error = "EmailPersistenceException"
        /\ ~HasEvent("persistence_complete")
        /\ ~HasEvent("warning")
        /\ events[Len(events)] = ErrorEvent("EmailPersistenceException")

\* Every collected email was saved, none a duplicate or failed, and the
\* recipient save failed on each of its attempts.
C23_Witness ==
    /\ walk.save.pc = "raised"
    /\ walk.save.opCalls = PROFILES[RecipientProfile].max_retries
    /\ Len(persist.successful) = Len(walk.all_emails)
    /\ Len(walk.all_emails) > 1

EventStatuses == {"initializing", "progress", "persistence_complete", "warning", "error"}

IsStatusEvent(e) ==
    /\ "status" \in DOMAIN e
    /\ e.status \in EventStatuses
    /\ "message" \in DOMAIN e

IsSnapshot(e) ==
    /\ "phase" \in DOMAIN e
    /\ "status" \notin DOMAIN e
    /\ "message" \notin DOMAIN e

\* C25 as stated: every event yielded by get_all_emails_recursively has a
\* status field, whose value is initializing, progress,
\* persistence_complete, warning or error, and a message field.
C25_EveryEventIsStatusEvent ==
    \A k \in DOMAIN events : IsStatusEvent(events[k])

\* C25 amended: every event yielded by get_all_emails_recursively is either
\* a status event (a status field with one of the five values and a message
\* field) or a progress snapshot of the collection service, passed through
\* as it is: a phase field, no status field and no message field.
C25_EventIsStatusOrSnapshot ==
    \A k \in DOMAIN events : IsStatusEvent(events[k]) \/ IsSnapshot(events[k])

\* An invocation that ended with persistence_complete after progress events
\* and snapshots of a folder with messages.
C25_Witness ==
    /\ walk.pc = "done"
    /\ HasEvent("persistence_complete")
    /\ HasEvent("progress")
    /\ \E k \in DOMAIN events : IsSnapshot(events[k]) /\ events[k].phase = "processing"

\* C26: every record the orchestrator hands to bulk_save_emails carries
\* the stable message_id of the Email it was built from in
\* graph_message_id, the column with the unique key, and the Email's
\* source_id in graph_source_id and nowhere else.
C26_RecordsKeyedOnStableId ==
    walk.pc \in {"save", "recipients", "done"} =>
        /\ Len(emails) = Len(walk.all_emails)
        /\ \A i \in DOMAIN emails :
              /\ emails[i].graph_message_id = walk.all_emails[i].message_id
              /\ emails[i].graph_source_id = walk.all_emails[i].source_id
              /\ emails[i].graph_message_id # walk.all_emails[i].source_id

NoRepeats(q) == \A i, j \in DOMAIN q : q[i] = q[j] => i = j

HoldsMessageOf(f) ==
    \E i \in DOMAIN walk.all_emails : walk.all_emails[i].source_id = MessageOf[f]

\* The recursion is one path of the tree from the folder the invocation was
\* called on down to the one folder in hand; every folder above the one in
\* hand has collected its own emails and is in its subfolder loop, at the
\* subfolder below it.
OnePath ==
    /\ walk.stack # <<>> => walk.stack[1].folder = RootFolder
    /\ \A k \in 1..(Len(walk.stack) - 1) :
          LET above == walk.stack[k]
          IN  /\ above.pc = "loop"
              /\ above.next - 1 \in DOMAIN Children[above.folder]
              /\ walk.stack[k + 1].folder = Children[above.folder][above.next - 1]
              /\ remote[above.folder] = 1 => HoldsMessageOf(above.folder)

DepthFirstPreOrder ==
    /\ OnePath
    /\ NoRepeats(walk.entered)
    /\ IsPrefix(walk.entered, Visit(RootFolder))
    /\ \A f \in Range(walk.entered) : \A k \in DOMAIN Children[f] :
          Children[f][k] \in Range(walk.entered) =>
              /\ Collected(f)
              /\ remote[f] = 1 => HoldsMessageOf(f)
              /\ \A j \in 1..(k - 1) : Children[f][j] \in Range(walk.entered)
    /\ (WalkOver /\ RootFolder \notin FailedFolders) =>
          /\ walk.entered = Visit(RootFolder)
          /\ \A f \in TreeFolders :
                (\A g \in TreeFolders \ {f} : f \in Subtree(g) => g \notin FailedFolders)
                    => Cardinality({ i \in DOMAIN walk.entered : walk.entered[i] = f }) = 1

\* C27: the walk of the tree comes to an end, and all along it goes through
\* the folders depth first in pre-order: a folder's own emails are
\* collected before a subfolder of it is entered, the subfolders are
\* entered in their listed order, each after the whole subtree of the one
\* before it, one folder is in hand at a time, and once the walk is over
\* every folder none of whose ancestors failed was entered exactly once.
C27_WalkIsDepthFirstAndEnds == []DepthFirstPreOrder /\ <>WalkOver

\* The whole tree was walked: A1 below A before B.
C27_Witness ==
    /\ WalkOver
    /\ walk.entered = <<"R", "A", "A1", "B">>
    /\ Len(walk.all_emails) = 4

\* What the second invocation has done to the database and how it ended.
SecondRunOnlyDuplicates ==
    /\ table = walk.first.rows
    /\ recipientRows = walk.first.recipients
    /\ persist.pc # "idle" => persist.successful = <<>> /\ persist.failed = <<>>
    /\ walk.pc \in {"done", "raised"} =>
          /\ walk.pc = "done"
          /\ persist.pc = "returned"
          /\ walk.all_emails # <<>>
          /\ Len(persist.duplicate) = Len(walk.all_emails)
          /\ StatusOf(events[Len(events)]) = "persistence_complete"
          /\ ~HasEvent("error")

CleanRuns ==
    /\ walk.run = 2
    /\ walk.first.pc = "done"
    /\ walk.first.failed = <<>>
    /\ walk.first.skipped = {}
    /\ budget = walk.first.budget

FolderCollectedStep ==
    /\ InFolder("collect")
    /\ walk'.pc = "walk"
    /\ Len(walk'.stack) = Len(walk.stack)
    /\ walk'.stack[Len(walk'.stack)].pc = "loop"

\* The source ids the cache holds for folder f; none without an entry.
CachedIds(c, f) == IF f \in DOMAIN c THEN DOMAIN c[f].emails ELSE {}

\* What the step of folder f has to do, by the claim.
CachedPlusFresh(f) ==
    LET hit       == f \in DOMAIN cache /\ wall.time - cache[f].timestamp <= cache_ttl
        cachedIds == IF hit THEN CachedIds(cache, f) ELSE {}
        freshIds  == IF remote[f] = 1 THEN {MessageOf[f]} ELSE {}
        given     == SubSeq(walk'.all_emails, Len(walk.all_emails) + 1, Len(walk'.all_emails))
        givenIds  == Field(given, "source_id")
    IN  /\ \E k \in (Len(events) + 1)..Len(events') :
              IsSnapshot(events'[k]) /\ events'[k].phase = "fetching"
        /\ IsPrefix(walk.all_emails, walk'.all_emails)
        /\ Range(givenIds) = cachedIds \cup freshIds
        /\ NoRepeats(givenIds)
        /\ \A k \in 1..Cardinality(cachedIds) : givenIds[k] \in cachedIds
        /\ IF freshIds \ cachedIds # {}
           THEN /\ f \in DOMAIN cache'
                /\ DOMAIN cache'[f].emails = cachedIds \cup freshIds
                /\ cache'[f].timestamp = wall.time
           ELSE IF hit
           THEN f \in DOMAIN cache' /\ cache'[f] = cache[f]
           ELSE f \notin DOMAIN cache'
        /\ \A g \in TreeFolders \ {f} :
              /\ g \in DOMAIN cache' <=> g \in DOMAIN cache
              /\ g \in DOMAIN cache => cache'[g] = cache[g]

FolderRaisesStep ==
    /\ walk.pc = "walk"
    /\ walk.stack # <<>>
    /\ [folder |-> Top.folder, at |-> Top.pc] \in walk'.failed \ walk.failed

\* The entry of folder g is after the step what it was before it.
EntryKept(g) ==
    /\ g \in DOMAIN cache' <=> g \in DOMAIN cache
    /\ g \in DOMAIN cache => cache'[g] = cache[g]

\* The emails cached are after the step what they were before it, but
\* that an expired entry of folder f may have been removed.
CacheKeptApartFromExpired(f) ==
    /\ \A g \in TreeFolders \ {f} : EntryKept(g)
    /\ \/ EntryKept(f)
       \/ /\ f \in DOMAIN cache
          /\ wall.time - cache[f].timestamp > cache_ttl
          /\ f \notin DOMAIN cache'

\* A step in which store_folder_emails is called.
StoreStep == call' # call /\ call'.op = "store"

\* C40: store_folder_emails is called for a folder only when that folder's
\* collection has yielded its final list; the lookup and the child listing
\* of a folder leave the cache alone, and when the lookup, the child listing
\* or the collection of a folder raises, the emails cached for that folder
\* and for every other folder are what they were before, apart from the
\* lazy removal of an expired entry.
C40_RaiseLeavesCacheAsEntered ==
    [][ /\ StoreStep =>
             /\ InFolder("collect")
             /\ call'.folder = Top.folder
             /\ FolderEmails(Top.folder) # <<>>
             /\ ~FolderRaisesStep
        /\ (InFolder("folder") \/ InFolder("children")) => cache' = cache
        /\ FolderRaisesStep => CacheKeptApartFromExpired(Top.folder) ]_vars

\* The collection of folder A raised after the lookup had removed A's
\* expired entry, the entry of the root, stored before, staying.
C40_Witness ==
    /\ [folder |-> "A", at |-> "collect"] \in walk.failed
    /\ call.op = "info"
    /\ call.folder = "A"
    /\ call.age > cache_ttl
    /\ "A" \notin DOMAIN cache
    /\ "R" \in DOMAIN cache

\* bulk_save_recipients has raised to the orchestrator.
RecipientSaveRaised == walk.save.pc = "raised"

\* C37: a failed bulk_save_recipients leaves no half-written recipient
\* set: when the call has raised, none of the recipients passed to it is
\* committed; and over the re-executions of the save no recipient is
\* inserted more than once.
C37_FailedSaveLeavesNothing ==
    /\ RecipientSaveRaised => recipientRows = <<>>
    /\ Len(recipientRows) <= Len(walk.recipients)

(***************************************************************************)
(* recursive_email_controller: event_generator and _handle_exception       *)
(***************************************************************************)

\* The methods class ExceptionHandlerManager defines.
ManagerMethods ==
    { "handle_authentication_error", "handle_email_error", "handle_attachment_error",
      "handle_id_translation_error", "handle_folder_error", "handle_graph_response_error",
      "handle_recursive_email_error", "handle_global_error",
      "handle_email_persistence_error", "handle_validation_error",
      "handle_api_not_found", "handle_no_result_found", "handle_value_error",
      "handle_client_authentication_error", "handle_db_email_recipient_error" }

Entry(key, method) == [key |-> key, is_type |-> key # "404", method |-> method]

\* The dict literal of get_exception_handlers, in insertion order; every
\* value is an attribute of the manager, read while the dict is built.
HandlerTable ==
    << Entry("404", "handle_api_not_found"),
       Entry("APIError", "handle_api_error"),
       Entry("AttachmentPersistenceException", "handle_attachment_persistence_error"),
       Entry("AuthenticationFailedException", "handle_authentication_error"),
       Entry("ClientAuthenticationError", "handle_client_authentication_error"),
       Entry("DBEmailRecipientException", "handle_db_email_recipient_error"),
       Entry("EmailAttachmentException", "handle_attachment_error"),
       Entry("EmailPersistenceException", "handle_email_persistence_error"),
       Entry("FolderException", "handle_folder_error"),
       Entry("GraphResponseException", "handle_graph_response_error"),
       Entry("IdTranslationException", "handle_id_translation_error"),
       Entry("NoResultFound", "handle_no_result_found"),
       Entry("RecursiveEmailException", "handle_recursive_email_error"),
       Entry("RequestValidationError", "handle_validation_error"),
       Entry("ValueError", "handle_value_error"),
       Entry("Exception", "handle_global_error") >>

TableTypes == { HandlerTable[k].key : k \in { j \in DOMAIN HandlerTable : HandlerTable[j].is_type } }

\* The exceptions a generator may end with: every type of the table but
\* Exception itself, one HTTPException the table does not name, one
\* subclass of ValueError and one exception outside the table.
ExceptionKinds == (TableTypes \ {"Exception"}) \cup {"EmailException", "UnicodeError", "KeyError"}

\* isinstance(exc, exception_type), exc being of class e.
IsInstance(e, t) ==
    \/ t = e
    \/ t = "Exception"
    \/ e = "UnicodeError" /\ t = "ValueError"

\* get_exception_handlers(handler): reading a method the manager does not
\* define raises AttributeError before any dict exists.
GetExceptionHandlers(handler) ==
    IF \A k \in DOMAIN HandlerTable : HandlerTable[k].method \in handler
    THEN [raised |-> "none", table |-> HandlerTable]
    ELSE [raised |-> "AttributeError", table |-> <<>>]

\* The "detail" of the JSON body the handler method answers with.
Detail(method, e) ==
    IF method = "handle_global_error"
    THEN [by |-> method, text |-> "An unexpected error occurred. Please try again later."]
    ELSE [by |-> method, text |-> e]

ErrorResponse(method, e) == [status |-> "error", message |-> Detail(method, e)]

\* The first entry of the table whose key is a type exc is an instance of.
FirstMatch(tbl, e) ==
    LET hits == { k \in DOMAIN tbl : tbl[k].is_type /\ IsInstance(e, tbl[k].key) }
    IN  IF hits = {} THEN 0 ELSE CHOOSE k \in hits : \A j \in hits : k <= j

\* _handle_exception(request, exc): the event to send, or what it raises.
StreamHandleException(handler, e) ==
    IF IsInstance(e, "APIError") /\ e = "APIError"
    THEN IF "handle_api_error" \in handler
         THEN [raised |-> "none", response |-> ErrorResponse("handle_api_error", e)]
         ELSE [raised |-> "AttributeError", response |-> <<>>]
    ELSE LET got == GetExceptionHandlers(handler)
             k   == FirstMatch(got.table, e)
         IN  IF got.raised # "none"
             THEN [raised |-> got.raised, response |-> <<>>]
             ELSE IF k # 0
                  THEN [raised |-> "none", response |-> ErrorResponse(got.table[k].method, e)]
                  ELSE [raised |-> "none", response |-> ErrorResponse("handle_global_error", e)]

\* What get_all_emails_recursively yields after "initializing".
LaterStatuses == {"progress", "warning", "error", "persistence_complete"}

MaxStreamEvents == 2

StreamScripts ==
    { <<InitializingEvent>> \o [ k \in DOMAIN t |-> [status |-> t[k], message |-> t[k]] ] :
        t \in SeqsUpTo(LaterStatuses, MaxStreamEvents) }

InitStream ==
    /\ stream \in { [pc |-> "streaming", script |-> script, pending |-> script, ending |-> e,
                     sent |-> <<>>, escaped |-> "none"] :
                      script \in StreamScripts, e \in ExceptionKinds \cup {"return"} }
    /\ IdleRetry
    /\ IdleRepo
    /\ IdleCollect
    /\ IdleCache
    /\ IdleRecursive
    /\ IdleOverlap

\* async for status_update in ...: yield {"data": json.dumps(status_update)}
StreamForward ==
    /\ stream.pc = "streaming"
    /\ stream.pending # <<>>
    /\ stream' = [stream EXCEPT !.pending = Tail(@),
                                !.sent = Append(@, Head(stream.pending))]
    /\ UNCHANGED <<retryVars, repoVars, collectVars, cacheVars, recVars, overlapVars>>

\* The service generator is exhausted: the event generator ends.
StreamGeneratorReturns ==
    /\ stream.pc = "streaming"
    /\ stream.pending = <<>>
    /\ stream.ending = "return"
    /\ stream' = [stream EXCEPT !.pc = "closed"]
    /\ UNCHANGED <<retryVars, repoVars, collectVars, cacheVars, recVars, overlapVars>>

\* except Exception as e: error_response = await _handle_exception(request, e);
\* what _handle_exception raises is raised inside the except clause and
\* leaves the event generator.
StreamGeneratorRaises ==
    /\ stream.pc = "streaming"
    /\ stream.pending = <<>>
    /\ stream.ending # "return"
    /\ LET r == StreamHandleException(ManagerMethods, stream.ending)
       IN  stream' = IF r.raised = "none"
                     THEN [stream EXCEPT !.pc = "closed", !.sent = Append(@, r.response)]
                     ELSE [stream EXCEPT !.pc = "crashed", !.escaped = r.raised]
    /\ UNCHANGED <<retryVars, repoVars, collectVars, cacheVars, recVars, overlapVars>>

NextStream == StreamForward \/ StreamGeneratorReturns \/ StreamGeneratorRaises

SpecStream == InitStream /\ [][NextStream]_vars

(***************************************************************************)
(* Claims about the streaming controller                                   *)
(***************************************************************************)

StreamOver == stream.pc \in {"closed", "crashed"}

\* C24: whatever exception the service generator ends with, the event
\* generator ends normally (nothing escapes it), having sent every event
\* the service yielded and after them exactly one more event, whose status
\* is error and whose message is the detail of the handler of the table
\* that answers for the exception.
C24_ControllerDeliversFinalError ==
    (StreamOver /\ stream.ending # "return") =>
        /\ stream.pc = "closed"
        /\ stream.escaped = "none"
        /\ stream.sent # <<>>
        /\ LET last == stream.sent[Len(stream.sent)]
           IN  /\ last.status = "error"
               /\ "message" \in DOMAIN last
               /\ \E k \in DOMAIN HandlerTable :
                      /\ HandlerTable[k].is_type
                      /\ IsInstance(stream.ending, HandlerTable[k].key)
                      /\ last.message = Detail(HandlerTable[k].method, stream.ending)
        /\ SubSeq(stream.sent, 1, Len(stream.sent) - 1) = stream.script

----------------------------------------------------------------------------
(* Two invocations of _get_all_emails_recursively_internal on one folder,  *)
(* sharing the EmailCacheService of the application                         *)

\* The largest source id of the folder's messages.
MaxOverlapId == 2

OverlapIds == 1..MaxOverlapId

OverlapFolder == "inbox"

Invocations == {1, 2}

OverlapEmail(id) == [source_id |-> id, subject |-> "a"]

\* The final list the collection yields for the messages the folder holds.
ListOf(S) == MapValues([ id \in S |-> OverlapEmail(id) ])

IdsOf(es) == { es[k].source_id : k \in DOMAIN es }

\* The locals of an invocation that has listed the child folders.
InvocationStart ==
    [ pc |-> "lookup",             \* lookup | collect | item | done
      cached_emails |-> <<>>,
      item |-> <<>> ]

InitOverlap ==
    /\ overlap \in { [pc |-> "running", box |-> box,
                      inv |-> [i \in Invocations |-> InvocationStart],
                      stores |-> <<>>] : box \in SUBSET OverlapIds }
    /\ cache \in {<<>>} \cup { Stored(<<>>, OverlapFolder, ListOf(S), 0) :
                                 S \in (SUBSET OverlapIds) \ {{}} }
    /\ cache_ttl = DefaultCacheTtl
    /\ wall = [time |-> 0, steps |-> 0]
    /\ call = [op |-> "none"]
    /\ IdleRetry
    /\ IdleRepo
    /\ IdleCollect
    /\ IdleRecursive
    /\ IdleStream

\* cached_info = get_cache_info(folder_id); cached_emails = the values of
\* the entry when there is one.
OverlapLookup(i) ==
    /\ overlap.pc = "running"
    /\ overlap.inv[i].pc = "lookup"
    /\ LET chk == IsFolderCached(cache, OverlapFolder, wall.time, cache_ttl)
       IN  /\ cache' = chk.cache
           /\ overlap' = [overlap EXCEPT
                  !.inv[i].pc = "collect",
                  !.inv[i].cached_emails =
                      IF chk.cached THEN MapValues(cache[OverlapFolder].emails) ELSE <<>>]
    /\ UNCHANGED <<cache_ttl, wall, call, retryVars, repoVars, collectVars, recVars, streamVars>>

\* get_all_emails_by_folder_id reads the folder: it will yield the list of
\* the messages the folder holds now, or no list when it holds none.
OverlapFetch(i) ==
    /\ overlap.pc = "running"
    /\ overlap.inv[i].pc = "collect"
    /\ overlap' = [overlap EXCEPT
           !.inv[i].pc = IF overlap.box = {} THEN "done" ELSE "item",
           !.inv[i].item = ListOf(overlap.box)]
    /\ UNCHANGED <<cacheVars, retryVars, repoVars, collectVars, recVars, streamVars>>

\* What the body of the async for stores for a list item: cached + new
\* when something was cached and something is new, the item when nothing
\* was cached, nothing otherwise (<<>> stands for no store).
ToStore(v) ==
    IF v.cached_emails # <<>>
    THEN LET new_emails == NotCached(v.item, v.cached_emails)
         IN  IF new_emails # <<>> THEN v.cached_emails \o new_emails ELSE <<>>
    ELSE v.item

\* if isinstance(item, list): ... store_folder_emails(folder_id, ...)
OverlapStore(i) ==
    /\ overlap.pc = "running"
    /\ overlap.inv[i].pc = "item"
    /\ LET v  == overlap.inv[i]
           es == ToStore(v)
           c1 == IF es # <<>> THEN Stored(cache, OverlapFolder, es, wall.time) ELSE cache
       IN  /\ cache' = c1
           /\ overlap' = [overlap EXCEPT
                  !.inv[i].pc = "done",
                  !.stores = IF es # <<>>
                             THEN Append(@, [by |-> i,
                                             ids |-> DOMAIN c1[OverlapFolder].emails,
                                             during |-> \E j \in Invocations \ {i} :
                                                 overlap.inv[j].pc \in {"collect", "item"}])
                             ELSE @]
    /\ UNCHANGED <<cache_ttl, wall, call, retryVars, repoVars, collectVars, recVars, streamVars>>

\* A message arrives in the remote folder.
OverlapArrive ==
    /\ overlap.pc = "running"
    /\ \E id \in OverlapIds \ overlap.box :
          overlap' = [overlap EXCEPT !.box = @ \cup {id}]
    /\ UNCHANGED <<cacheVars, retryVars, repoVars, collectVars, recVars, streamVars>>

NextOverlap ==
    \/ \E i \in Invocations : OverlapLookup(i)
    \/ \E i \in Invocations : OverlapFetch(i)
    \/ \E i \in Invocations : OverlapStore(i)
    \/ OverlapArrive
    \/ ClockStep

SpecOverlap == InitOverlap /\ [][NextOverlap]_vars

\* C36: the cache gives no atomicity over read-baseline, fetch, store: each
\* invocation that stores leaves in the entry exactly the merge of the
\* baseline it read before its own fetch with its own fresh emails, and
\* the entry is that of the latest store, nothing of an earlier store
\* surviving on its own account.
C36_StoreReplacesWithOwnMerge ==
    /\ \A k \in DOMAIN overlap.stores :
          LET v == overlap.inv[overlap.stores[k].by]
          IN  overlap.stores[k].ids = IdsOf(v.cached_emails) \cup IdsOf(v.item)
    /\ (overlap.stores # <<>> /\ OverlapFolder \in DOMAIN cache) =>
          DOMAIN cache[OverlapFolder].emails = overlap.stores[Len(overlap.stores)].ids

\* A lost update: both invocations have stored, the later one having read
\* its baseline before the earlier store, and the entry lacks an email the
\* earlier store held.
C36_Witness ==
    /\ overlap.pc = "running"
    /\ Len(overlap.stores) = 2
    /\ overlap.stores[1].during
    /\ OverlapFolder \in DOMAIN cache
    /\ overlap.stores[1].ids \ DOMAIN cache[OverlapFolder].emails # {}

====
